---------------------------- MODULE Spec2Model ----------------------------
(***************************************************************************)
(* Checkpointed graph execution as used by the demo applications of the    *)
(* repository.  The graphs, node functions, routers and caller helpers     *)
(* are translated from the demo scripts.  The execution engine the demos   *)
(* import (superstep scheduling, reducers, checkpoint store, interrupt     *)
(* protocol) is not part of the repository's sources; it is modelled from  *)
(* the engine contract of the specification (sections 3 to 7).             *)
(*                                                                         *)
(* The module holds one sub-model per demo application.  Every sub-model   *)
(* has its own variables and its own specification; the variables of the   *)
(* other sub-models stay at their initial values.                          *)
(***************************************************************************)
EXTENDS Integers, Sequences, FiniteSets, TLC

VARIABLES
    pStore,     \* project workflow: thread -> sequence of checkpoints
    pStatus,    \* project workflow: thread -> engine status
    pResult,    \* project workflow: thread -> last RunResult given to a caller
    pUpdates,   \* project workflow: number of update_state calls made
    pStarts,    \* project workflow: number of start_new_project calls made
    pResumedAt, \* project workflow: thread -> checkpoint id the last resume began at
    pTrace,     \* project workflow: thread -> nodes executed by the current run
    hStatus,    \* hierarchical graph: engine status of the run
    hValues,    \* hierarchical graph: channel values (the pre-step state)
    hFrontier,  \* hierarchical graph: nodes of the current superstep
    hTasks,     \* hierarchical graph: finished nodes of the step, in finish order
    hStep,      \* hierarchical graph: number of committed supersteps
    hResult,    \* hierarchical graph: RunResult given to the caller
    hInput,     \* hierarchical graph: the input of the last stream call
    sStore,     \* sales workflow: thread -> sequence of checkpoints
    sRun,       \* sales workflow: caller -> position and in-memory run state
    iPc,        \* HITL supervisor: position of run_with_hitl
    iCollected, \* HITL supervisor: interrupt ids collected by the first stream
    iStatus,    \* HITL supervisor: engine status of thread demo-1
    iNext,      \* HITL supervisor: node of the next superstep
    iMessages,  \* HITL supervisor: the messages channel
    iShadow,    \* the messages channel of the same run without any interrupt
    iTasks,     \* HITL supervisor: tool call -> sub-agent task of the step
    iTurns,     \* HITL supervisor: tool turns the supervisor has made
    iIds,       \* HITL supervisor: number of interrupt ids handed out
    iDecisions, \* HITL supervisor: decisions received, by interrupt id
    iExecuted,  \* HITL supervisor: executions of the low-level tools
    iCommits,   \* HITL supervisor: number of committed checkpoints
    iAllApprove,\* every decision so far was an approval
    iResult,    \* HITL supervisor: RunResult given to the caller
    mStatus,    \* manual supervisor: engine status of the run
    mValues,    \* manual supervisor: channel values
    mFrontier,  \* manual supervisor: nodes of the next superstep
    mTrace,     \* manual supervisor: the nodes executed, in order
    mInput,     \* manual supervisor: the input of the stream call
    mResult,    \* manual supervisor: RunResult given to the caller
    rPc,        \* routers: "idle", "drawn" (a state is given) or "routed"
    rNode,      \* routers: the node whose conditional edge is followed
    rState,     \* routers: the state the router is applied to
    rOut,       \* routers: the router's value and the edge's destination
    uStore,     \* sales users: thread id -> sequence of checkpoints
    uRun,       \* sales users: user -> in-memory state of the user's run
    uAlone,     \* user -> the thread's checkpoints had only this user acted
    uAloneRun,  \* user -> the run's state had only this user acted
    gStatus,    \* research graph: engine status of the run
    gValues,    \* research graph: the shared state
    gFrontier,  \* research graph: nodes of the next superstep
    gTrace,     \* research graph: the nodes executed, in order
    gEmpty,     \* research graph: empty model replies of the run
    gResult,    \* research graph: RunResult given to the caller
    kStore,     \* coordinator graph: the thread's checkpoints
    kStatus,    \* coordinator graph: engine status of the run
    kRuns,      \* coordinator graph: runs started on the thread
    kTrace,     \* coordinator graph: nodes executed by the run
    kAssigned,  \* coordinator graph: assigned_team written by the run
    kCall,      \* coordinator graph: the run's subgraph invocation
    kSub,       \* coordinator graph: team -> last subgraph state
    kResult,    \* coordinator graph: RunResult given to the caller
    tValues,    \* simple_test: the values of thread test-1
    tFrontier,  \* simple_test: nodes of the next superstep
    tTrace,     \* simple_test: the nodes executed by the run
    tBroke,     \* simple_test: the loop reached its safety limit
    tStatus,    \* simple_test: engine status of the run
    tRuns,      \* simple_test: runs of the script
    aValues,    \* agentic RAG: thread -> latest checkpointed values
    aStatus,    \* agentic RAG: thread -> engine status
    aCalled,    \* agentic RAG: thread -> the last run called the tool
    aRuns,      \* agentic RAG: thread -> runs started
    xStore,     \* interactive_sales: the thread's checkpoints
    xPc,        \* interactive_sales: position of the session
    xSeen,      \* interactive_sales: state.values read when it opened
    xFirst,     \* interactive_sales: first_message
    xFn         \* interactive_sales: the function of the last call

projVars == <<pStore, pStatus, pResult, pUpdates, pStarts, pResumedAt,
             pTrace>>

hierVars == <<hStatus, hValues, hFrontier, hTasks, hStep, hResult, hInput>>

salesVars == <<sStore, sRun>>

hitlVars == <<iPc, iCollected, iStatus, iNext, iMessages, iShadow, iTasks,
              iTurns, iIds, iDecisions, iExecuted, iCommits, iAllApprove,
              iResult>>

manualVars == <<mStatus, mValues, mFrontier, mTrace, mInput, mResult>>

routerVars == <<rPc, rNode, rState, rOut>>

usersVars == <<uStore, uRun, uAlone, uAloneRun>>

researchVars == <<gStatus, gValues, gFrontier, gTrace, gEmpty, gResult>>

coordVars == <<kStore, kStatus, kRuns, kTrace, kAssigned, kCall, kSub, kResult>>

testVars == <<tValues, tFrontier, tTrace, tBroke, tStatus, tRuns>>

ragVars == <<aValues, aStatus, aCalled, aRuns>>

sessionVars == <<xStore, xPc, xSeen, xFirst, xFn>>

vars == <<projVars, hierVars, salesVars, hitlVars, manualVars, routerVars,
          usersVars, researchVars, coordVars, testVars, ragVars,
          sessionVars>>

(***************************************************************************)
(* Bounds of the model.                                                    *)
(***************************************************************************)
MaxCheckpoints == 6
MaxUpdates == 1
MaxStarts == 2
MaxHierSteps == 5
MaxSalesCheckpoints == 4
MaxTurns == 2
MaxGatedCalls == 1
MaxInterrupts == 3
MaxManualSteps == 7
MaxUserCheckpoints == 3
MaxResearchSteps == 9
MaxCoordRuns == 2
MaxTestRuns == 2
MaxRagRuns == 2
MaxSessionCheckpoints == 4

(***************************************************************************)
(* Generic helpers.                                                        *)
(***************************************************************************)
Null == 0

Min(a, b) == IF a < b THEN a ELSE b

SeqFromTo(a, b) == [i \in 1..(b - a + 1) |-> a + i - 1]

SubSeqFrom(s, k) == IF k > Len(s) THEN <<>> ELSE SubSeq(s, k, Len(s))

Reverse(s) == [i \in 1..Len(s) |-> s[Len(s) + 1 - i]]

(***************************************************************************)
(* Engine: channels and reducers.  A write is a record holding only the    *)
(* channels written.  The messages channel is the append channel, every    *)
(* other channel is an overwrite channel.                                  *)
(***************************************************************************)
AppendChannels == {"messages"}

Reduce(ch, old, new) == IF ch \in AppendChannels THEN old \o new ELSE new

ApplyWrite(values, w) ==
    [ch \in DOMAIN values |->
        IF ch \in DOMAIN w THEN Reduce(ch, values[ch], w[ch]) ELSE values[ch]]

RECURSIVE ApplyWrites(_, _)
ApplyWrites(values, ws) ==
    IF ws = <<>> THEN values
    ELSE ApplyWrites(ApplyWrite(values, Head(ws)), Tail(ws))

(***************************************************************************)
(* Engine: checkpoint store.  A thread's checkpoints are kept oldest       *)
(* first; ids grow with the position in the log.                           *)
(***************************************************************************)
HasState(store, t) == Len(store[t]) > 0

Latest(store, t) == store[t][Len(store[t])]

NewCheckpoint(log, parent, values, next, source) ==
    [id |-> Len(log) + 1,
     parent |-> parent,
     values |-> values,
     next |-> next,
     step |-> Len(log),
     source |-> source]

\* Append the checkpoint of a run whose previous checkpoint is parent.
CommitChild(log, parent, values, next, source) ==
    Append(log, NewCheckpoint(log, parent, values, next, source))

\* Append a checkpoint whose parent is the log's latest checkpoint.
Commit(log, values, next, source) ==
    CommitChild(log, IF Len(log) = 0 THEN Null ELSE log[Len(log)].id,
                values, next, source)

GetStateHistory(store, t) == Reverse(store[t])

GetState(store, t) ==
    IF HasState(store, t)
    THEN [found |-> TRUE, checkpoint_id |-> Latest(store, t).id,
          values |-> Latest(store, t).values]
    ELSE [found |-> FALSE, checkpoint_id |-> Null, values |-> <<>>]

NoResult == [tag |-> "None"]

Completed(values) == [tag |-> "Completed", values |-> values]

Failed(error) == [tag |-> "Failed", error |-> error]

(***************************************************************************)
(* Project workflow (stateful-workflow-langgraph-persistence-demo).        *)
(***************************************************************************)
PThreads == {"project-1"}

DefaultTasks == 3

MaxTasks == 10

TasksPerExecution == 3

\* The numbers of task lines the model's plan may hold: none (the default
\* tasks are used), fewer than one execution's worth, several executions'
\* worth, and more than MaxTasks (the list is cut).
ParsedChoices == {0, 1, 4, 7, MaxTasks + 1}

ProjectDefaults ==
    [messages |-> <<>>,
     planning_complete |-> FALSE,
     execution_complete |-> FALSE,
     review_complete |-> FALSE,
     project_plan |-> "",
     execution_results |-> <<>>,
     final_report |-> "",
     current_stage |-> "start",
     completed_tasks |-> <<>>,
     pending_tasks |-> <<>>]

ProjectInitialState ==
    [messages |-> <<"human">>,
     planning_complete |-> FALSE,
     execution_complete |-> FALSE,
     review_complete |-> FALSE,
     project_plan |-> "",
     execution_results |-> <<>>,
     final_report |-> "",
     current_stage |-> "planning",
     completed_tasks |-> <<>>,
     pending_tasks |-> <<>>]

\* parsed: the number of task lines found in the model's plan.
planning_stage(state, parsed) ==
    [messages |-> <<"plan">>,
     project_plan |-> "plan",
     planning_complete |-> TRUE,
     pending_tasks |-> IF parsed > 0 THEN SeqFromTo(1, Min(parsed, MaxTasks))
                       ELSE SeqFromTo(1, DefaultTasks),
     current_stage |-> "execution"]

\* An execution stage that puts the newly completed tasks in front.
execution_stage_newest_first(state) ==
    LET pending == state.pending_tasks
        tasks_to_complete == Min(TasksPerExecution, Len(pending))
        remaining_pending == SubSeqFrom(pending, tasks_to_complete + 1)
        all_done == Len(remaining_pending) = 0
    IN  [messages |-> <<"exec">>,
         execution_results |-> Append(state.execution_results, "exec"),
         completed_tasks |-> SubSeq(pending, 1, tasks_to_complete) \o state.completed_tasks,
         pending_tasks |-> remaining_pending,
         execution_complete |-> all_done,
         current_stage |-> IF all_done THEN "review" ELSE "execution"]

\* An execution stage that completes one task per step.
execution_stage_one_task(state) ==
    LET pending == state.pending_tasks
        remaining_pending == SubSeqFrom(pending, 2)
        all_done == Len(remaining_pending) = 0
    IN  [messages |-> <<"exec">>,
         execution_results |-> Append(state.execution_results, "exec"),
         completed_tasks |-> state.completed_tasks \o SubSeq(pending, 1, Min(1, Len(pending))),
         pending_tasks |-> remaining_pending,
         execution_complete |-> all_done,
         current_stage |-> IF all_done THEN "review" ELSE "execution"]

execution_stage(state) ==
    LET pending == state.pending_tasks
        completed == state.completed_tasks
        tasks_to_complete == Min(TasksPerExecution, Len(pending))
        newly_completed == SubSeq(pending, 1, tasks_to_complete)
        remaining_pending == SubSeqFrom(pending, tasks_to_complete + 1)
        all_done == Len(remaining_pending) = 0
    IN  [messages |-> <<"exec">>,
         execution_results |-> Append(state.execution_results, "exec"),
         completed_tasks |-> completed \o newly_completed,
         pending_tasks |-> remaining_pending,
         execution_complete |-> all_done,
         current_stage |-> IF all_done THEN "review" ELSE "execution"]

review_stage(state) ==
    [messages |-> <<"report">>,
     final_report |-> "report",
     review_complete |-> TRUE,
     current_stage |-> "complete"]

\* A router that sends a planned project straight to the review.
route_workflow_skips_execution(state) ==
    IF state.current_stage = "complete" \/ state.review_complete THEN "__end__"
    ELSE IF ~state.planning_complete THEN "planning"
    ELSE "review"

route_workflow(state) ==
    IF state.current_stage = "complete" \/ state.review_complete THEN "__end__"
    ELSE IF ~state.planning_complete THEN "planning"
    ELSE IF ~state.execution_complete THEN "execution"
    ELSE "review"

\* The conditional-edge mapping of create_project_workflow, the same for
\* the three nodes.
ProjectEdge(route) ==
    IF route = "__end__" THEN {} ELSE {route}

ProjectNodeWrite(node, state, parsed) ==
    CASE node = "planning" -> planning_stage(state, parsed)
      [] node = "execution" -> execution_stage(state)
      [] node = "review" -> review_stage(state)

PFrontier(t) == Latest(pStore, t).next

\* A run loop whose Completed result carries the values the last step read
\* instead of the values it committed.
PAfterCommit_stale(t, log) ==
    IF log[Len(log)].next = {}
    THEN /\ pStatus' = [pStatus EXCEPT ![t] = "halted"]
         /\ pResult' = [pResult EXCEPT ![t] =
                Completed(IF Len(log) > 1 THEN log[Len(log) - 1].values
                          ELSE ProjectDefaults)]
    ELSE /\ pStatus' = [pStatus EXCEPT ![t] = "running"]
         /\ pResult' = [pResult EXCEPT ![t] = NoResult]

\* The engine's run loop ends a run whose next frontier is empty.
PAfterCommit(t, log) ==
    IF log[Len(log)].next = {}
    THEN /\ pStatus' = [pStatus EXCEPT ![t] = "halted"]
         /\ pResult' = [pResult EXCEPT ![t] = Completed(log[Len(log)].values)]
    ELSE /\ pStatus' = [pStatus EXCEPT ![t] = "running"]
         /\ pResult' = [pResult EXCEPT ![t] = NoResult]

\* A start that opens a lineage of its own on a thread that has history.
start_new_project_fresh(t) ==
    /\ pStatus[t] # "running"
    /\ Len(pStore[t]) < MaxCheckpoints
    /\ pStarts < MaxStarts
    /\ pStarts' = pStarts + 1
    /\ LET log == CommitChild(pStore[t], Null,
                              ApplyWrite(ProjectDefaults, ProjectInitialState),
                              {"planning"}, "input")
       IN  /\ pStore' = [pStore EXCEPT ![t] = log]
           /\ PAfterCommit(t, log)
    /\ pResumedAt' = [pResumedAt EXCEPT ![t] = Null]
    /\ pTrace' = [pTrace EXCEPT ![t] = <<>>]
    /\ UNCHANGED pUpdates
    /\ UNCHANGED <<hierVars, salesVars, hitlVars, manualVars, routerVars, usersVars, researchVars, coordVars, testVars, ragVars, sessionVars>>

\* graph.stream(initial_state, config)
start_new_project(t) ==
    /\ pStatus[t] # "running"
    /\ Len(pStore[t]) < MaxCheckpoints
    /\ pStarts < MaxStarts
    /\ pStarts' = pStarts + 1
    /\ LET base == IF HasState(pStore, t) THEN Latest(pStore, t).values
                   ELSE ProjectDefaults
           log == Commit(pStore[t], ApplyWrite(base, ProjectInitialState),
                         {"planning"}, "input")
       IN  /\ pStore' = [pStore EXCEPT ![t] = log]
           /\ PAfterCommit(t, log)
    /\ pResumedAt' = [pResumedAt EXCEPT ![t] = Null]
    /\ pTrace' = [pTrace EXCEPT ![t] = <<>>]
    /\ UNCHANGED pUpdates
    /\ UNCHANGED <<hierVars, salesVars, hitlVars, manualVars, routerVars, usersVars, researchVars, coordVars, testVars, ragVars, sessionVars>>

\* A resume that streams the initial state again instead of None.
resume_project_restarts(t) ==
    /\ pStatus[t] # "running"
    /\ Len(pStore[t]) < MaxCheckpoints
    /\ IF ~GetState(pStore, t).found
       THEN UNCHANGED <<pStore, pStatus, pResult, pResumedAt, pTrace>>
       ELSE LET log == Commit(pStore[t],
                              ApplyWrite(Latest(pStore, t).values, ProjectInitialState),
                              {"planning"}, "input")
            IN  /\ pStore' = [pStore EXCEPT ![t] = log]
                /\ PAfterCommit(t, log)
                /\ pResumedAt' = [pResumedAt EXCEPT ![t] = Latest(pStore, t).id]
                /\ pTrace' = [pTrace EXCEPT ![t] = <<>>]
    /\ UNCHANGED <<pUpdates, pStarts>>
    /\ UNCHANGED <<hierVars, salesVars, hitlVars, manualVars, routerVars, usersVars, researchVars, coordVars, testVars, ragVars, sessionVars>>

\* state = graph.get_state(config); graph.stream(None, config)
resume_project(t) ==
    /\ pStatus[t] # "running"
    /\ IF ~GetState(pStore, t).found
       THEN UNCHANGED <<pStatus, pResult, pResumedAt, pTrace>>
       ELSE /\ PAfterCommit(t, pStore[t])
            /\ pResumedAt' = [pResumedAt EXCEPT ![t] = GetState(pStore, t).checkpoint_id]
            /\ pTrace' = [pTrace EXCEPT ![t] = <<>>]
    /\ UNCHANGED <<pStore, pUpdates, pStarts>>
    /\ UNCHANGED <<hierVars, salesVars, hitlVars, manualVars, routerVars, usersVars, researchVars, coordVars, testVars, ragVars, sessionVars>>

\* One superstep of the project graph: the frontier node runs on the latest
\* checkpoint's values, its write is merged, the checkpoint is committed
\* and the node's router gives the next frontier.
PStep(t) ==
    /\ pStatus[t] = "running"
    /\ Len(pStore[t]) < MaxCheckpoints
    /\ \E node \in PFrontier(t), parsed \in ParsedChoices :
         /\ (node # "planning" => parsed = 0)
         /\ LET state == Latest(pStore, t).values
                values == ApplyWrite(state, ProjectNodeWrite(node, state, parsed))
                log == Commit(pStore[t], values,
                              ProjectEdge(route_workflow(values)), "loop")
            IN  /\ pStore' = [pStore EXCEPT ![t] = log]
                /\ PAfterCommit(t, log)
                /\ pTrace' = [pTrace EXCEPT ![t] = Append(@, node)]
    /\ UNCHANGED <<pUpdates, pStarts, pResumedAt>>
    /\ UNCHANGED <<hierVars, salesVars, hitlVars, manualVars, routerVars, usersVars, researchVars, coordVars, testVars, ragVars, sessionVars>>

\* The node's model call raises: the step is aborted.
PStepFail(t) ==
    /\ pStatus[t] = "running"
    /\ PFrontier(t) # {}
    /\ pStatus' = [pStatus EXCEPT ![t] = "failed"]
    /\ pResult' = [pResult EXCEPT ![t] = Failed("ModelUnavailable")]
    /\ UNCHANGED <<pStore, pUpdates, pStarts, pResumedAt, pTrace>>
    /\ UNCHANGED <<hierVars, salesVars, hitlVars, manualVars, routerVars, usersVars, researchVars, coordVars, testVars, ragVars, sessionVars>>

\* The caller stops consuming the stream between two supersteps.
PCancel(t) ==
    /\ pStatus[t] = "running"
    /\ pStatus' = [pStatus EXCEPT ![t] = "idle"]
    /\ UNCHANGED <<pStore, pResult, pUpdates, pStarts, pResumedAt, pTrace>>
    /\ UNCHANGED <<hierVars, salesVars, hitlVars, manualVars, routerVars, usersVars, researchVars, coordVars, testVars, ragVars, sessionVars>>

\* A listing that keeps the store's own order (oldest first).
get_project_history_oldest_first(t) == pStore[t]

\* checkpoints = list(graph.get_state_history(config))
get_project_history(t) == GetStateHistory(pStore, t)

\* graph.update_state(old_checkpoint.config, ...): the new checkpoint is
\* a child of the historical checkpoint.
time_travel_forks(t, idx) ==
    /\ pStatus[t] # "running"
    /\ pUpdates < MaxUpdates
    /\ Len(pStore[t]) < MaxCheckpoints
    /\ idx \in 1..Len(get_project_history(t))
    /\ LET old_checkpoint == get_project_history(t)[idx]
           values == ApplyWrite(old_checkpoint.values, old_checkpoint.values)
       IN  pStore' = [pStore EXCEPT ![t] =
               CommitChild(pStore[t], old_checkpoint.id, values,
                           ProjectEdge(route_workflow(values)), "update")]
    /\ pUpdates' = pUpdates + 1
    /\ UNCHANGED <<pStatus, pResult, pStarts, pResumedAt, pTrace>>
    /\ UNCHANGED <<hierVars, salesVars, hitlVars, manualVars, routerVars, usersVars, researchVars, coordVars, testVars, ragVars, sessionVars>>

\* interactive_query option 4: graph.update_state(config, old_checkpoint.values)
\* on the idx-th entry of the listed history.
time_travel(t, idx) ==
    /\ pStatus[t] # "running"
    /\ pUpdates < MaxUpdates
    /\ Len(pStore[t]) < MaxCheckpoints
    /\ idx \in 1..Len(get_project_history(t))
    /\ LET old_checkpoint == get_project_history(t)[idx]
           values == ApplyWrite(Latest(pStore, t).values, old_checkpoint.values)
           next == IF Latest(pStore, t).source = "input" /\ Len(pStore[t]) = 1
                   THEN Latest(pStore, t).next
                   ELSE ProjectEdge(route_workflow(values))
       IN  pStore' = [pStore EXCEPT ![t] = Commit(pStore[t], values, next, "update")]
    /\ pUpdates' = pUpdates + 1
    /\ UNCHANGED <<pStatus, pResult, pStarts, pResumedAt, pTrace>>
    /\ UNCHANGED <<hierVars, salesVars, hitlVars, manualVars, routerVars, usersVars, researchVars, coordVars, testVars, ragVars, sessionVars>>

InitProjectVars ==
    /\ pStore = [t \in PThreads |-> <<>>]
    /\ pStatus = [t \in PThreads |-> "idle"]
    /\ pResult = [t \in PThreads |-> NoResult]
    /\ pUpdates = 0
    /\ pStarts = 0
    /\ pResumedAt = [t \in PThreads |-> Null]
    /\ pTrace = [t \in PThreads |-> <<>>]

NextProject ==
    \E t \in PThreads :
        \/ start_new_project(t)
        \/ resume_project(t)
        \/ PStep(t)
        \/ PStepFail(t)
        \/ PCancel(t)
        \/ \E idx \in 1..MaxCheckpoints : time_travel(t, idx)

(***************************************************************************)
(* Hierarchical teams graph (hierarchical-team-pattern-langgraph).  The    *)
(* graph is compiled without a checkpointer: a run keeps its state in      *)
(* memory.                                                                 *)
(***************************************************************************)
Unset == "__unset__"

\* A declaration order that adds the worker agents before the supervisors.
HNodeOrder_workers_first ==
    <<"email", "slack", "calendar", "meeting",
      "top_supervisor", "communication_team", "scheduling_team">>

\* add_node order of create_hierarchical_graph.
HNodeOrder ==
    <<"top_supervisor", "communication_team", "scheduling_team",
      "email", "slack", "calendar", "meeting">>

HNodes == {HNodeOrder[i] : i \in 1..Len(HNodeOrder)}

HOverwriteChannels == {"next_team", "next_agent"}

\* graph.stream({"messages": [HumanMessage(content=query)]})
HInput == [messages |-> <<"human">>]

HEmptyState == [messages |-> <<>>, next_team |-> Unset, next_agent |-> Unset]

\* The channels of HierarchicalState.
HDeclared == {"messages", "next_team", "next_agent"}

\* An input that names a channel HierarchicalState does not declare.
HUnknownInput == [messages |-> <<"human">>, priority |-> "high"]

HInputs == {HInput, HUnknownInput}

\* A write check that lets any channel name through.
HAccepts_any(input) == TRUE

\* Unknown channels are rejected at write time.
HAccepts(input) == DOMAIN input \subseteq HDeclared

\* state.get(key, default)
StateGet(state, key, default) ==
    IF state[key] = Unset THEN default ELSE state[key]

\* A model reply is given by the set of keywords its text contains.
TopKeywords == {"communication", "scheduling"}

CommKeywords == {"email", "slack"}

SchedKeywords == {"calendar", "meeting"}

top_supervisor_node(state, content) ==
    [messages |-> <<"top_supervisor">>,
     next_team |-> IF "communication" \in content THEN "communication"
                   ELSE IF "scheduling" \in content THEN "scheduling"
                   ELSE "FINISH"]

communication_supervisor_node(state, content) ==
    [messages |-> <<"communication_team">>,
     next_agent |-> IF "email" \in content THEN "email"
                    ELSE IF "slack" \in content THEN "slack"
                    ELSE "FINISH"]

scheduling_supervisor_node(state, content) ==
    [messages |-> <<"scheduling_team">>,
     next_agent |-> IF "calendar" \in content THEN "calendar"
                    ELSE IF "meeting" \in content THEN "meeting"
                    ELSE "FINISH"]

\* result = agent.invoke(state); return {"messages": result["messages"]}:
\* the agent's result holds the messages it was given followed by its own.
worker_agent_node(name, state) ==
    [messages |-> state.messages \o <<name>>]

HKeywords(node) ==
    CASE node = "top_supervisor" -> TopKeywords
      [] node = "communication_team" -> CommKeywords
      [] node = "scheduling_team" -> SchedKeywords
      [] OTHER -> {}

HNodeWrite(node, state, content) ==
    CASE node = "top_supervisor" -> top_supervisor_node(state, content)
      [] node = "communication_team" -> communication_supervisor_node(state, content)
      [] node = "scheduling_team" -> scheduling_supervisor_node(state, content)
      [] OTHER -> worker_agent_node(node, state)

route_from_top_supervisor(state) ==
    LET next_team == StateGet(state, "next_team", "FINISH")
    IN  IF next_team = "communication" THEN "communication_team"
        ELSE IF next_team = "scheduling" THEN "scheduling_team"
        ELSE "__end__"

route_from_communication_team(state) ==
    LET next_agent == StateGet(state, "next_agent", "FINISH")
    IN  IF next_agent = "email" THEN "email"
        ELSE IF next_agent = "slack" THEN "slack"
        ELSE "__end__"

route_from_scheduling_team(state) ==
    LET next_agent == StateGet(state, "next_agent", "FINISH")
    IN  IF next_agent = "calendar" THEN "calendar"
        ELSE IF next_agent = "meeting" THEN "meeting"
        ELSE "__end__"

\* The destinations the edges of create_hierarchical_graph give a node that
\* just ran: its conditional edge (END mapped to no node) and its static
\* edges.
HEdges(node, state) ==
    LET dest(route) == IF route = "__end__" THEN {} ELSE {route}
    IN  CASE node = "top_supervisor" -> dest(route_from_top_supervisor(state))
          [] node = "communication_team" ->
                dest(route_from_communication_team(state)) \cup {"top_supervisor"}
          [] node = "scheduling_team" ->
                dest(route_from_scheduling_team(state)) \cup {"top_supervisor"}
          [] node \in {"email", "slack"} -> {"communication_team"}
          [] node \in {"calendar", "meeting"} -> {"scheduling_team"}

HDone == {hTasks[i].node : i \in 1..Len(hTasks)}

\* A snapshot that already holds the writes of the nodes that finished
\* earlier in the same superstep.
HSnapshot_dirty ==
    ApplyWrites(hValues, [i \in 1..Len(hTasks) |-> hTasks[i].write])

\* The state every node of the superstep reads.
HSnapshot == hValues

\* Writes in the order in which the nodes finished.
HWritesInOrder_finish(tasks) == [i \in 1..Len(tasks) |-> tasks[i].write]

\* The writes of a superstep in the declared order of their nodes.
HWritesInOrder(tasks) ==
    LET ran(n) == \E i \in 1..Len(tasks) : tasks[i].node = n
        order == SelectSeq(HNodeOrder, ran)
        taskOf(n) == CHOOSE i \in 1..Len(tasks) : tasks[i].node = n
    IN  [i \in 1..Len(order) |-> tasks[taskOf(order[i])].write]

\* A conflict check that lets the last writer win.
HConflict_last_wins(tasks) == FALSE

\* More than one node of the superstep wrote the same overwrite channel.
HConflict(tasks) ==
    \E ch \in HOverwriteChannels :
        Cardinality({i \in 1..Len(tasks) : ch \in DOMAIN tasks[i].write}) > 1

\* The value the conditional edge's router returns for a node that just
\* ran; the worker agents have static edges only.
HRoute(node, state) ==
    CASE node = "top_supervisor" -> route_from_top_supervisor(state)
      [] node = "communication_team" -> route_from_communication_team(state)
      [] node = "scheduling_team" -> route_from_scheduling_team(state)
      [] OTHER -> "none"

\* A policy that halts the run as soon as one router returns the terminal
\* marker.
HNextFrontier_any_terminal(tasks, state) ==
    IF \E i \in 1..Len(tasks) : HRoute(tasks[i].node, state) = "__end__"
    THEN {}
    ELSE UNION {HEdges(tasks[i].node, state) : i \in 1..Len(tasks)}

\* The next frontier holds every node some edge selected.
HNextFrontier(tasks, state) ==
    UNION {HEdges(tasks[i].node, state) : i \in 1..Len(tasks)}

\* graph.stream(input): the input is written and the entry edge selects
\* top_supervisor.
HStart(input) ==
    /\ hStatus # "running"
    /\ hInput' = input
    /\ IF HAccepts(input)
       THEN /\ hStatus' = "running"
            /\ hValues' = ApplyWrite(HEmptyState, input)
            /\ hFrontier' = {"top_supervisor"}
            /\ hTasks' = <<>>
            /\ hStep' = 0
            /\ hResult' = NoResult
       ELSE /\ hResult' = Failed("UnknownChannel")
            /\ UNCHANGED <<hStatus, hValues, hFrontier, hTasks, hStep>>
    /\ UNCHANGED <<projVars, salesVars, hitlVars, manualVars, routerVars, usersVars, researchVars, coordVars, testVars, ragVars, sessionVars>>

\* One node of the frontier runs on the step's snapshot; its write is
\* buffered.
HExec(node) ==
    /\ hStatus = "running"
    /\ node \in hFrontier \ HDone
    /\ \E content \in SUBSET HKeywords(node) :
         hTasks' = Append(hTasks,
                          [node |-> node, read |-> HSnapshot,
                           write |-> HNodeWrite(node, HSnapshot, content)])
    /\ UNCHANGED <<hStatus, hValues, hFrontier, hStep, hResult, hInput>>
    /\ UNCHANGED <<projVars, salesVars, hitlVars, manualVars, routerVars, usersVars, researchVars, coordVars, testVars, ragVars, sessionVars>>

\* A node's model call raises: the step is aborted.
HNodeFail(node) ==
    /\ hStatus = "running"
    /\ node \in hFrontier \ HDone
    /\ hStatus' = "failed"
    /\ hResult' = Failed("ModelUnavailable")
    /\ hTasks' = <<>>
    /\ UNCHANGED <<hValues, hFrontier, hStep, hInput>>
    /\ UNCHANGED <<projVars, salesVars, hitlVars, manualVars, routerVars, usersVars, researchVars, coordVars, testVars, ragVars, sessionVars>>

\* All nodes of the frontier finished: the writes are merged through the
\* reducers and the routers give the next frontier.
HCommit ==
    /\ hStatus = "running"
    /\ hFrontier # {}
    /\ HDone = hFrontier
    /\ hStep < MaxHierSteps
    /\ IF HConflict(hTasks)
       THEN /\ hStatus' = "failed"
            /\ hResult' = Failed("ConcurrentOverwriteConflict")
            /\ hTasks' = <<>>
            /\ UNCHANGED <<hValues, hFrontier, hStep>>
       ELSE LET values == ApplyWrites(hValues, HWritesInOrder(hTasks))
                next == HNextFrontier(hTasks, values)
            IN  /\ hValues' = values
                /\ hFrontier' = next
                /\ hTasks' = <<>>
                /\ hStep' = hStep + 1
                /\ hStatus' = IF next = {} THEN "halted" ELSE "running"
                /\ hResult' = IF next = {} THEN Completed(values) ELSE NoResult
    /\ UNCHANGED hInput
    /\ UNCHANGED <<projVars, salesVars, hitlVars, manualVars, routerVars, usersVars, researchVars, coordVars, testVars, ragVars, sessionVars>>

InitHierVars ==
    /\ hStatus = "idle"
    /\ hValues = HEmptyState
    /\ hFrontier = {}
    /\ hTasks = <<>>
    /\ hStep = 0
    /\ hResult = NoResult
    /\ hInput = HInput

NextHier ==
    \/ \E input \in HInputs : HStart(input)
    \/ \E node \in HNodes : HExec(node)
    \/ \E node \in HNodes : HNodeFail(node)
    \/ HCommit

(***************************************************************************)
(* Sales qualification workflow (stateful-supabase-checkpointer-sales).    *)
(* Callers run concurrently; each call of continue_conversation first      *)
(* reads the thread's state and then streams the graph.                    *)
(***************************************************************************)
SThreads == {"@sarah_coach"}

SCallers == {"c1", "c2"}

None == "None"

\* A user message is "user_yes" when its text holds one of the words
\* yes, yeah, sure, afford, can, and "user_no" otherwise.
UserMessages == {"user_yes", "user_no"}

SalesDefaults ==
    [messages |-> <<>>, user_id |-> None, qualification |-> None,
     can_afford |-> None, budget |-> 0, current_stage |-> None,
     stripe_link_sent |-> FALSE, stripe_link |-> "",
     started_at |-> 0, last_updated |-> 0]

\* datetime.now(): the clock reading when the thread holds the given
\* checkpoints; it grows with every checkpoint.
SNow(log) == Len(log) + 1

SalesInitialState(user_id, initial_message, now) ==
    [messages |-> <<initial_message>>,
     user_id |-> user_id,
     qualification |-> None,
     can_afford |-> None,
     budget |-> 0,
     current_stage |-> "qualifying",
     stripe_link_sent |-> FALSE,
     stripe_link |-> "",
     started_at |-> now,
     last_updated |-> now]

Budget == 300

qualifier_agent(state, now) ==
    IF state.can_afford = None
    THEN [messages |-> <<"ask">>, current_stage |-> "qualifying",
          last_updated |-> now]
    ELSE LET messages == state.messages
             last_message == IF Len(messages) > 0 THEN messages[Len(messages)] ELSE ""
             can_afford == last_message = "user_yes"
         IN  IF can_afford
             THEN [messages |-> <<"qualified">>,
                   qualification |-> TRUE,
                   can_afford |-> TRUE,
                   budget |-> Budget,
                   current_stage |-> "closing",
                   last_updated |-> now]
             ELSE [messages |-> <<"disqualified">>,
                   qualification |-> FALSE,
                   can_afford |-> FALSE,
                   current_stage |-> "disqualified",
                   last_updated |-> now]

closer_agent(state, now) ==
    IF ~state.stripe_link_sent
    THEN [messages |-> <<"link">>,
          stripe_link_sent |-> TRUE,
          stripe_link |-> "link",
          current_stage |-> "complete",
          last_updated |-> now]
    ELSE [messages |-> <<"ack">>, last_updated |-> now]

\* A router whose last branch returns the stage itself.
route_conversation_returns_stage(state) ==
    LET current_stage == IF state.current_stage = None THEN "qualifying"
                         ELSE state.current_stage
    IN  IF current_stage = "qualifying" THEN "qualifier"
        ELSE IF current_stage = "closing" THEN "closer"
        ELSE IF current_stage \in {"disqualified", "complete"} THEN "__end__"
        ELSE current_stage

route_conversation(state) ==
    LET current_stage == IF state.current_stage = None THEN "qualifying"
                         ELSE state.current_stage
    IN  IF current_stage = "qualifying" THEN "qualifier"
        ELSE IF current_stage = "closing" THEN "closer"
        ELSE IF current_stage \in {"disqualified", "complete"} THEN "__end__"
        ELSE "qualifier"

\* The conditional-edge mapping of create_sales_graph, the same for both nodes.
SalesEdge(route) == IF route = "__end__" THEN {} ELSE {route}

SalesNodeWrite(node, state, now) ==
    CASE node = "qualifier" -> qualifier_agent(state, now)
      [] node = "closer" -> closer_agent(state, now)

\* The node calls the model (and so may fail with ModelUnavailable).
SalesCallsModel(node, state) ==
    node = "qualifier" /\ state.can_afford = None

IdleRun == [pc |-> "idle", thread |-> None, message |-> None, seen |-> FALSE,
            base |-> Null, values |-> SalesDefaults, next |-> {},
            trace |-> <<>>, result |-> NoResult]

\* An engine without the per-thread execution lock.
SBusy_unlocked(t) == FALSE

\* The per-thread execution lock: a run of the thread is in flight.
SBusy(t) == \E c \in SCallers : sRun[c].pc = "streaming" /\ sRun[c].thread = t

ThreadBusy == [tag |-> "ThreadBusy"]

\* A continue_conversation that streams the whole initial state again.
SInputOf_initial(run, now) == SalesInitialState(run.thread, run.message, now)

\* The input continue_conversation streams: the new message, or the whole
\* initial state (start_new_conversation) when no conversation was found.
SInputOf(run, now) ==
    IF run.seen THEN [messages |-> <<run.message>>]
    ELSE SalesInitialState(run.thread, run.message, now)

\* continue_conversation, first part: state = graph.get_state(config)
SCheck(c, t, message) ==
    /\ sRun[c].pc = "idle"
    /\ sRun' = [sRun EXCEPT ![c] =
                  [IdleRun EXCEPT !.pc = "checked", !.thread = t,
                                  !.message = message,
                                  !.seen = GetState(sStore, t).found]]
    /\ UNCHANGED sStore
    /\ UNCHANGED <<projVars, hierVars, hitlVars, manualVars, routerVars, usersVars, researchVars, coordVars, testVars, ragVars, sessionVars>>

\* continue_conversation, second part: graph.stream(input, config), with
\* the whole initial state when no conversation was found and with the
\* new message otherwise.  The engine rejects the call when the thread is
\* running; otherwise it loads the latest checkpoint, applies the input and
\* starts at the entry node.
SStream(c) ==
    /\ sRun[c].pc = "checked"
    /\ LET t == sRun[c].thread
           input == SInputOf(sRun[c], SNow(sStore[t]))
       IN  IF SBusy(t)
           THEN /\ sRun' = [sRun EXCEPT ![c] =
                              [IdleRun EXCEPT !.result = ThreadBusy]]
                /\ UNCHANGED sStore
           ELSE /\ Len(sStore[t]) < MaxSalesCheckpoints
                /\ LET base == IF HasState(sStore, t) THEN Latest(sStore, t).values
                               ELSE SalesDefaults
                       values == ApplyWrite(base, input)
                       log == Commit(sStore[t], values, {"qualifier"}, "input")
                   IN  /\ sStore' = [sStore EXCEPT ![t] = log]
                       /\ sRun' = [sRun EXCEPT ![c].pc = "streaming",
                                               ![c].base = log[Len(log)].id,
                                               ![c].values = values,
                                               ![c].next = {"qualifier"}]
    /\ UNCHANGED <<projVars, hierVars, hitlVars, manualVars, routerVars, usersVars, researchVars, coordVars, testVars, ragVars, sessionVars>>

\* One superstep of the caller's run: the frontier node runs on the run's
\* state, and the checkpoint is appended as a child of the run's previous
\* checkpoint.
SStep(c) ==
    /\ sRun[c].pc = "streaming"
    /\ LET t == sRun[c].thread
       IN  /\ Len(sStore[t]) < MaxSalesCheckpoints
           /\ \E node \in sRun[c].next :
                LET values == ApplyWrite(sRun[c].values,
                                         SalesNodeWrite(node, sRun[c].values,
                                                        SNow(sStore[t])))
                    next == SalesEdge(route_conversation(values))
                    log == CommitChild(sStore[t], sRun[c].base, values, next, "loop")
                IN  /\ sStore' = [sStore EXCEPT ![t] = log]
                    /\ sRun' = [sRun EXCEPT ![c] =
                                  IF next = {}
                                  THEN [IdleRun EXCEPT !.result = Completed(values)]
                                  ELSE [sRun[c] EXCEPT !.base = log[Len(log)].id,
                                                       !.values = values,
                                                       !.next = next,
                                                       !.trace = Append(@, node)]]
    /\ UNCHANGED <<projVars, hierVars, hitlVars, manualVars, routerVars, usersVars, researchVars, coordVars, testVars, ragVars, sessionVars>>

\* The node's model call raises: the step is aborted and the run ends.
SFail(c) ==
    /\ sRun[c].pc = "streaming"
    /\ \E node \in sRun[c].next : SalesCallsModel(node, sRun[c].values)
    /\ sRun' = [sRun EXCEPT ![c] =
                  [IdleRun EXCEPT !.result = Failed("ModelUnavailable")]]
    /\ UNCHANGED sStore
    /\ UNCHANGED <<projVars, hierVars, hitlVars, manualVars, routerVars, usersVars, researchVars, coordVars, testVars, ragVars, sessionVars>>

\* chat_with_user: KeyboardInterrupt ends the call between two supersteps.
SInterrupt(c) ==
    /\ sRun[c].pc = "streaming"
    /\ sRun' = [sRun EXCEPT ![c] = IdleRun]
    /\ UNCHANGED sStore
    /\ UNCHANGED <<projVars, hierVars, hitlVars, manualVars, routerVars, usersVars, researchVars, coordVars, testVars, ragVars, sessionVars>>

InitSalesVars ==
    /\ sStore = [t \in SThreads |-> <<>>]
    /\ sRun = [c \in SCallers |-> IdleRun]

NextSales ==
    \E c \in SCallers :
        \/ \E t \in SThreads, message \in UserMessages : SCheck(c, t, message)
        \/ SStream(c)
        \/ SStep(c)
        \/ SFail(c)
        \/ SInterrupt(c)

(***************************************************************************)
(* Supervisor with human-in-the-loop review (supervisor-email-cal-demo,    *)
(* main_with_hitl.py).  The supervisor agent alternates a model step and a *)
(* tools step; each tool call of a tools step runs a sub-agent, whose      *)
(* middleware suspends before a tool listed in interrupt_on.  iShadow      *)
(* follows the run of the supervisor of main.py (no middleware) on the     *)
(* same input and the same model replies.                                  *)
(***************************************************************************)
\* tools=[schedule_event, manage_email], in this order.
SupervisorTools == <<"schedule_event", "manage_email">>

SupervisorToolSet == {SupervisorTools[i] : i \in 1..Len(SupervisorTools)}

\* The low-level tool a sub-agent uses to act.
InnerTool(tool) ==
    IF tool = "schedule_event" THEN "create_calendar_event" ELSE "send_email"

\* An interrupt_on that leaves send_email out.
InterruptOn_calendar_only == {"create_calendar_event"}

\* interrupt_on of the two HumanInTheLoopMiddleware instances.
InterruptOn == {"create_calendar_event", "send_email"}

\* The tool stubs: a confirmation of the tool and the arguments used.
ToolStub(inner, args) == <<inner, args>>

Msg(kind, tool, calls, outcome) ==
    [kind |-> kind, tool |-> tool, calls |-> calls, outcome |-> outcome]

HumanMsg == Msg("human", "", {}, <<>>)

AIMsg(calls) == Msg("ai", "", calls, <<>>)

\* The sub-agent's report, returned by the wrapping tool: it tells what
\* became of the actions the sub-agent proposed.
ToolMsg(tool, outcome) == Msg("tool", tool, {}, outcome)

Choices == {"1", "2", "3", "other"}

\* A mapping that sends an edit for choice 1.
DecisionOf_swapped(choice) ==
    IF choice = "1" THEN "edit"
    ELSE IF choice = "2" THEN "approve"
    ELSE IF choice = "3" THEN "reject"
    ELSE "approve"

\* run_with_hitl: the decision built for the user's choice.
DecisionOf(choice) ==
    IF choice = "1" THEN "approve"
    ELSE IF choice = "2" THEN "edit"
    ELSE IF choice = "3" THEN "reject"
    ELSE "approve"

DecisionTypes == {"approve", "edit", "reject"}

IPending == {iTasks[t].id : t \in {u \in DOMAIN iTasks : iTasks[u].phase = "suspended"}}

\* A sub-agent task runs until its next suspension or its end.  plan is
\* the number of actions the sub-agent still proposes.  A tool that is not
\* in interrupt_on executes at once.
Advance(task) ==
    IF task.plan = 0 THEN [task EXCEPT !.phase = "done"]
    ELSE IF InnerTool(task.tool) \in InterruptOn
    THEN [task EXCEPT !.phase = "suspended",
                      !.shadow = Append(@, ToolStub(InnerTool(task.tool), "orig"))]
    ELSE [task EXCEPT !.phase = "done",
                      !.plan = 0,
                      !.direct = task.plan,
                      !.outcome = @ \o [i \in 1..task.plan |->
                                          ToolStub(InnerTool(task.tool), "orig")],
                      !.shadow = @ \o [i \in 1..task.plan |->
                                          ToolStub(InnerTool(task.tool), "orig")]]

\* The suspended task continues with the decision as the value of suspend.
Resolve(task, decision) ==
    LET inner == InnerTool(task.tool)
        outcome == CASE decision = "approve" -> ToolStub(inner, "orig")
                     [] decision = "edit" -> ToolStub(inner, "edited")
                     [] decision = "reject" -> <<inner, "rejected">>
    IN  Advance([task EXCEPT !.plan = @ - 1, !.outcome = Append(@, outcome)])

\* The tool executions a decision causes.
ExecutionsOf(task, decision) ==
    IF decision = "reject" THEN {}
    ELSE {[tool |-> InnerTool(task.tool), id |-> task.id,
           args |-> IF decision = "edit" THEN "edited" ELSE "orig"]}

\* Executions of tools that ran without any interrupt.
DirectExecutions(tasks) ==
    {[tool |-> InnerTool(t), id |-> 0, args |-> "orig"] :
        t \in {u \in DOMAIN tasks : tasks[u].direct > 0}}

\* Interrupt ids are handed out in the order of the tool calls.
AssignIds(tasks, first) ==
    LET fresh == {t \in DOMAIN tasks : tasks[t].phase = "suspended" /\ tasks[t].id = 0}
        rank(t) == Cardinality({i \in 1..Len(SupervisorTools) :
                       /\ SupervisorTools[i] \in fresh
                       /\ \E j \in 1..Len(SupervisorTools) :
                            SupervisorTools[j] = t /\ i <= j})
    IN  [t \in DOMAIN tasks |->
            IF t \in fresh THEN [tasks[t] EXCEPT !.id = first + rank(t)]
            ELSE tasks[t]]

FreshCount(tasks) ==
    Cardinality({t \in DOMAIN tasks : tasks[t].phase = "suspended" /\ tasks[t].id = 0})

\* The tool messages of a finished tools step, in the order of the calls.
ToolMessages(tasks, field) ==
    LET called(t) == t \in DOMAIN tasks
        order == SelectSeq(SupervisorTools, called)
    IN  [i \in 1..Len(order) |->
            ToolMsg(order[i], IF field = "shadow" THEN tasks[order[i]].shadow
                              ELSE tasks[order[i]].outcome)]

\* An engine that keeps running while interrupts are pending.
IStatusAfterTools_running(tasks) == "running"

\* The thread is Suspended while a task of the step waits for a decision.
IStatusAfterTools(tasks) ==
    IF \E t \in DOMAIN tasks : tasks[t].phase = "suspended"
    THEN "suspended" ELSE "running"

\* The end of a tools step: suspended while a task waits for a decision,
\* committed once every task is done.
ToolsStepEnds(tasks0) ==
    LET tasks == AssignIds(tasks0, iIds)
    IN  /\ iIds + FreshCount(tasks0) <= MaxInterrupts
        /\ iIds' = iIds + FreshCount(tasks0)
        /\ IF \E t \in DOMAIN tasks : tasks[t].phase = "suspended"
           THEN /\ iTasks' = tasks
                /\ iStatus' = IStatusAfterTools(tasks)
                /\ iResult' = [tag |-> "Suspended",
                               ids |-> {tasks[t].id : t \in
                                   {u \in DOMAIN tasks : tasks[u].phase = "suspended"}}]
                /\ UNCHANGED <<iMessages, iShadow, iNext, iTurns, iCommits>>
           ELSE /\ iTasks' = <<>>
                /\ iStatus' = IStatusAfterTools(tasks)
                /\ iResult' = NoResult
                /\ iMessages' = iMessages \o ToolMessages(tasks, "outcome")
                /\ iShadow' = iShadow \o ToolMessages(tasks, "shadow")
                /\ iNext' = "model"
                /\ iTurns' = iTurns + 1
                /\ iCommits' = iCommits + 1

\* supervisor_agent.stream({"messages": [user query]}, config)
run_with_hitl_start ==
    /\ iPc = "init"
    /\ iPc' = "first_stream"
    /\ iStatus' = "running"
    /\ iNext' = "model"
    /\ iMessages' = <<HumanMsg>>
    /\ iShadow' = <<HumanMsg>>
    /\ iCommits' = 1
    /\ UNCHANGED <<iCollected, iTasks, iTurns, iIds, iDecisions, iExecuted,
                   iAllApprove, iResult>>
    /\ UNCHANGED <<projVars, hierVars, salesVars, manualVars, routerVars, usersVars, researchVars, coordVars, testVars, ragVars, sessionVars>>

\* The model step of the supervisor: the reply calls some of the tools or
\* is the final answer.
IModelStep ==
    /\ iStatus = "running"
    /\ iNext = "model"
    /\ \E calls \in SUBSET SupervisorToolSet :
         /\ (calls # {} => iTurns < MaxTurns)
         /\ iMessages' = Append(iMessages, AIMsg(calls))
         /\ iShadow' = Append(iShadow, AIMsg(calls))
         /\ iCommits' = iCommits + 1
         /\ IF calls = {}
            THEN /\ iStatus' = "halted"
                 /\ iNext' = "none"
                 /\ iResult' = Completed(iMessages')
            ELSE /\ iStatus' = "running"
                 /\ iNext' = "tools"
                 /\ iResult' = NoResult
    /\ UNCHANGED <<iPc, iCollected, iTasks, iTurns, iIds, iDecisions, iExecuted,
                   iAllApprove>>
    /\ UNCHANGED <<projVars, hierVars, salesVars, manualVars, routerVars, usersVars, researchVars, coordVars, testVars, ragVars, sessionVars>>

\* The supervisor's model call raises: the step is aborted and the
\* exception ends run_with_hitl.
IModelFail ==
    /\ iStatus = "running"
    /\ iNext = "model"
    /\ iStatus' = "failed"
    /\ iResult' = Failed("ModelUnavailable")
    /\ iPc' = "done"
    /\ UNCHANGED <<iCollected, iNext, iMessages, iShadow, iTasks, iTurns, iIds,
                   iDecisions, iExecuted, iCommits, iAllApprove>>
    /\ UNCHANGED <<projVars, hierVars, salesVars, manualVars, routerVars, usersVars, researchVars, coordVars, testVars, ragVars, sessionVars>>

\* The tools step: every tool call of the last reply runs its sub-agent.
IToolsStep ==
    /\ iStatus = "running"
    /\ iNext = "tools"
    /\ LET calls == iMessages[Len(iMessages)].calls
       IN  \E plan \in [calls -> 0..MaxGatedCalls] :
             LET tasks == [t \in calls |->
                             Advance([tool |-> t, plan |-> plan[t], phase |-> "new",
                                      id |-> 0, direct |-> 0,
                                      outcome |-> <<>>, shadow |-> <<>>])]
             IN  /\ ToolsStepEnds(tasks)
                 /\ iExecuted' = iExecuted \cup DirectExecutions(tasks)
    /\ UNCHANGED <<iPc, iCollected, iDecisions, iAllApprove>>
    /\ UNCHANGED <<projVars, hierVars, salesVars, manualVars, routerVars, usersVars, researchVars, coordVars, testVars, ragVars, sessionVars>>

\* A resume that goes ahead with any decision for a pending interrupt.
ResumeAccepted_partial(ids) == ids \cap IPending # {}

\* resume is accepted when every pending interrupt id has a decision.
ResumeAccepted(ids) == IPending \subseteq ids

\* resume(thread_id, decisions): decisions maps interrupt ids to decision
\* types.
EngineResume(decisions) ==
    /\ iStatus = "suspended"
    /\ IF ~ResumeAccepted(DOMAIN decisions)
       THEN /\ iResult' = [tag |-> "InterruptUnresolved",
                           supplied |-> DOMAIN decisions]
            /\ UNCHANGED <<iStatus, iNext, iMessages, iShadow, iTasks, iTurns,
                           iIds, iDecisions, iExecuted, iCommits>>
       ELSE LET decided == {t \in DOMAIN iTasks :
                               /\ iTasks[t].phase = "suspended"
                               /\ iTasks[t].id \in DOMAIN decisions}
                tasks == [t \in DOMAIN iTasks |->
                            IF t \in decided
                            THEN [Resolve(iTasks[t], decisions[iTasks[t].id])
                                      EXCEPT !.id = 0]
                            ELSE iTasks[t]]
            IN  /\ iDecisions' = iDecisions \cup
                       {[id |-> iTasks[t].id, type |-> decisions[iTasks[t].id]] :
                            t \in decided}
                /\ iExecuted' = iExecuted \cup
                       UNION {ExecutionsOf(iTasks[t], decisions[iTasks[t].id]) :
                                  t \in decided}
                /\ ToolsStepEnds(tasks)

\* The first stream of run_with_hitl has ended: the interrupts it yielded
\* are collected; without any, the function returns.
run_with_hitl_collect ==
    /\ iPc = "first_stream"
    /\ iStatus \in {"suspended", "halted"}
    /\ iCollected' = IF iStatus = "suspended" THEN IPending ELSE {}
    /\ iPc' = IF iCollected' = {} THEN "done" ELSE "deciding"
    /\ UNCHANGED <<iStatus, iNext, iMessages, iShadow, iTasks, iTurns, iIds,
                   iDecisions, iExecuted, iCommits, iAllApprove, iResult>>
    /\ UNCHANGED <<projVars, hierVars, salesVars, manualVars, routerVars, usersVars, researchVars, coordVars, testVars, ragVars, sessionVars>>

\* run_with_hitl: one choice per collected interrupt, then
\* supervisor_agent.stream(Command(resume=resume), config).
run_with_hitl_resume ==
    /\ iPc = "deciding"
    /\ \E choice \in [iCollected -> Choices] :
         /\ EngineResume([id \in iCollected |-> DecisionOf(choice[id])])
         /\ iAllApprove' = (iAllApprove /\ \A id \in iCollected :
                                              choice[id] \in {"1", "other"})
    /\ iPc' = "second_stream"
    /\ UNCHANGED iCollected
    /\ UNCHANGED <<projVars, hierVars, salesVars, manualVars, routerVars, usersVars, researchVars, coordVars, testVars, ragVars, sessionVars>>

\* The second stream of run_with_hitl has ended; the function returns.
run_with_hitl_finish ==
    /\ iPc = "second_stream"
    /\ iStatus \in {"suspended", "halted"}
    /\ iPc' = "done"
    /\ UNCHANGED <<iCollected, iStatus, iNext, iMessages, iShadow, iTasks,
                   iTurns, iIds, iDecisions, iExecuted, iCommits, iAllApprove,
                   iResult>>
    /\ UNCHANGED <<projVars, hierVars, salesVars, manualVars, routerVars, usersVars, researchVars, coordVars, testVars, ragVars, sessionVars>>

\* A resume call by a caller other than run_with_hitl, with decisions for
\* any non-empty set of the pending interrupt ids.
IApiResume ==
    /\ iPc = "done"
    /\ \E ids \in SUBSET IPending :
         /\ ids # {}
         /\ \E decisions \in [ids -> DecisionTypes] :
              /\ EngineResume(decisions)
              /\ iAllApprove' = (iAllApprove /\ \A id \in ids :
                                                   decisions[id] = "approve")
    /\ UNCHANGED <<iPc, iCollected>>
    /\ UNCHANGED <<projVars, hierVars, salesVars, manualVars, routerVars, usersVars, researchVars, coordVars, testVars, ragVars, sessionVars>>

InitHitlVars ==
    /\ iPc = "init"
    /\ iCollected = {}
    /\ iStatus = "idle"
    /\ iNext = "none"
    /\ iMessages = <<>>
    /\ iShadow = <<>>
    /\ iTasks = <<>>
    /\ iTurns = 0
    /\ iIds = 0
    /\ iDecisions = {}
    /\ iExecuted = {}
    /\ iCommits = 0
    /\ iAllApprove = TRUE
    /\ iResult = NoResult

NextHitl ==
    \/ run_with_hitl_start
    \/ IModelStep
    \/ IModelFail
    \/ IToolsStep
    \/ run_with_hitl_collect
    \/ run_with_hitl_resume
    \/ run_with_hitl_finish
    \/ IApiResume

(***************************************************************************)
(* Manual supervisor graph (prebuilt-react-supervisor-agent,               *)
(* manual_supervisor.py).  The graph is compiled without a checkpointer.   *)
(***************************************************************************)
MDeclared == {"messages", "next_agent"}

MEmptyState == [messages |-> <<>>, next_agent |-> Unset]

\* supervisor.stream({"messages": [HumanMessage(...)], "next_agent": ...})
MInput(next_agent) == [messages |-> <<"human">>, next_agent |-> next_agent]

MNextAgents == {"flight", "hotel", "FINISH"}

MKeywords == {"flight", "hotel"}

\* content: the keywords the model's reply contains.
supervisor_node(state, content) ==
    [messages |-> <<"supervisor">>,
     next_agent |-> IF "flight" \in content THEN "flight"
                    ELSE IF "hotel" \in content THEN "hotel"
                    ELSE "FINISH"]

\* result = flight_agent.invoke(state); return {"messages": result["messages"]}
flight_agent_node(state) == [messages |-> state.messages \o <<"flight">>]

hotel_agent_node(state) == [messages |-> state.messages \o <<"hotel">>]

route_supervisor(state) ==
    LET next_agent == StateGet(state, "next_agent", "flight")
    IN  IF next_agent = "flight" THEN "flight"
        ELSE IF next_agent = "hotel" THEN "hotel"
        ELSE "__end__"

\* An entry that routes on the input's next_agent.
MEntry_routed(state) ==
    IF route_supervisor(state) = "__end__" THEN {} ELSE {route_supervisor(state)}

\* workflow.add_edge(START, "supervisor")
MEntry(state) == {"supervisor"}

\* The edges of create_manual_supervisor.
MEdges(node, state) ==
    CASE node = "supervisor" ->
            IF route_supervisor(state) = "__end__" THEN {}
            ELSE {route_supervisor(state)}
      [] node \in {"flight", "hotel"} -> {"supervisor"}

MNodeWrite(node, state, content) ==
    CASE node = "supervisor" -> supervisor_node(state, content)
      [] node = "flight" -> flight_agent_node(state)
      [] node = "hotel" -> hotel_agent_node(state)

\* supervisor.stream(input, stream_mode="values")
MStart(next_agent) ==
    /\ mStatus # "running"
    /\ LET values == ApplyWrite(MEmptyState, MInput(next_agent))
           next == MEntry(values)
       IN  /\ mInput' = MInput(next_agent)
           /\ mValues' = values
           /\ mFrontier' = next
           /\ mTrace' = <<>>
           /\ mStatus' = IF next = {} THEN "halted" ELSE "running"
           /\ mResult' = IF next = {} THEN Completed(values) ELSE NoResult
    /\ UNCHANGED <<projVars, hierVars, salesVars, hitlVars, routerVars, usersVars, researchVars, coordVars, testVars, ragVars, sessionVars>>

\* One superstep: the frontier's node runs, its write is merged and its
\* edges give the next frontier.
MStep ==
    /\ mStatus = "running"
    /\ Len(mTrace) < MaxManualSteps
    /\ \E node \in mFrontier, content \in SUBSET MKeywords :
         /\ (node # "supervisor" => content = {})
         /\ LET values == ApplyWrite(mValues, MNodeWrite(node, mValues, content))
                next == MEdges(node, values)
            IN  /\ mValues' = values
                /\ mFrontier' = next
                /\ mTrace' = Append(mTrace, node)
                /\ mStatus' = IF next = {} THEN "halted" ELSE "running"
                /\ mResult' = IF next = {} THEN Completed(values) ELSE NoResult
    /\ UNCHANGED mInput
    /\ UNCHANGED <<projVars, hierVars, salesVars, hitlVars, routerVars, usersVars, researchVars, coordVars, testVars, ragVars, sessionVars>>

\* The node's model call raises: the step is aborted.
MStepFail ==
    /\ mStatus = "running"
    /\ mFrontier # {}
    /\ mStatus' = "failed"
    /\ mResult' = Failed("ModelUnavailable")
    /\ UNCHANGED <<mValues, mFrontier, mTrace, mInput>>
    /\ UNCHANGED <<projVars, hierVars, salesVars, hitlVars, routerVars, usersVars, researchVars, coordVars, testVars, ragVars, sessionVars>>

InitManualVars ==
    /\ mStatus = "idle"
    /\ mValues = MEmptyState
    /\ mFrontier = {}
    /\ mTrace = <<>>
    /\ mInput = MInput("flight")
    /\ mResult = NoResult

NextManual ==
    \/ \E next_agent \in MNextAgents : MStart(next_agent)
    \/ MStep
    \/ MStepFail

(***************************************************************************)
(* The conditional edges of the graphs the repository compiles: each       *)
(* router function with the mapping given to add_conditional_edges and     *)
(* the nodes its graph declares.  A router is applied to states over the   *)
(* channels it reads, with values inside and outside the words it tests.   *)
(***************************************************************************)
END == "__end__"

\* supervisor-subgraph-pattern-demo-langgraph: route_to_team
route_to_team(state) ==
    LET assigned == StateGet(state, "assigned_team", "none")
    IN  IF assigned = "tech" THEN "tech_team"
        ELSE IF assigned = "billing" THEN "billing_team"
        ELSE IF assigned = "none" THEN "clarification"
        ELSE "__end__"

\* supervisor-langgraph-email-cal-demo: route_after_supervisor
route_after_supervisor(state) ==
    LET next_agent == StateGet(state, "next_agent", "FINISH")
    IN  IF next_agent = "calendar" THEN "calendar"
        ELSE IF next_agent = "email" THEN "email"
        ELSE "__end__"

\* shared-state-langgraph-multi-agent-demo: route_supervisor
research_route_supervisor(state) ==
    LET next_agent == StateGet(state, "next_agent", "research")
    IN  IF next_agent = "research" THEN "research"
        ELSE IF next_agent = "analysis" THEN "analysis"
        ELSE IF next_agent = "report" THEN "report"
        ELSE "__end__"

RouterNodes ==
    {"sales.qualifier", "sales.closer",
     "project.planning", "project.execution", "project.review",
     "coordinator.coordinator",
     "hier.top_supervisor", "hier.communication_team", "hier.scheduling_team",
     "manual.supervisor", "emailcal.supervisor", "research.supervisor"}

RGraphOf(node) ==
    CASE node \in {"sales.qualifier", "sales.closer"} -> "sales"
      [] node \in {"project.planning", "project.execution", "project.review"} -> "project"
      [] node = "coordinator.coordinator" -> "coordinator"
      [] node \in {"hier.top_supervisor", "hier.communication_team",
                   "hier.scheduling_team"} -> "hier"
      [] node = "manual.supervisor" -> "manual"
      [] node = "emailcal.supervisor" -> "emailcal"
      [] node = "research.supervisor" -> "research"

\* The names given to add_node.
RGraphNodes(graph) ==
    CASE graph = "sales" -> {"qualifier", "closer"}
      [] graph = "project" -> {"planning", "execution", "review"}
      [] graph = "coordinator" -> {"coordinator", "tech_team", "billing_team",
                                   "clarification"}
      [] graph = "hier" -> HNodes
      [] graph = "manual" -> {"supervisor", "flight", "hotel"}
      [] graph = "emailcal" -> {"supervisor", "calendar", "email"}
      [] graph = "research" -> {"supervisor", "research", "analysis", "report"}

\* A mapping that names its keys as its destinations.
RIdentityMap(keys) == [k \in keys |-> k]

\* The mapping given to add_conditional_edges for the node.
ConditionalEdges(node) ==
    CASE RGraphOf(node) = "sales" -> RIdentityMap({"qualifier", "closer", END})
      [] RGraphOf(node) = "project" ->
            RIdentityMap({"planning", "execution", "review", END})
      [] node = "coordinator.coordinator" ->
            RIdentityMap({"tech_team", "billing_team", "clarification", END})
      [] node = "hier.top_supervisor" ->
            RIdentityMap({"communication_team", "scheduling_team", END})
      [] node = "hier.communication_team" -> RIdentityMap({"email", "slack", END})
      [] node = "hier.scheduling_team" -> RIdentityMap({"calendar", "meeting", END})
      [] node = "manual.supervisor" -> RIdentityMap({"flight", "hotel", END})
      [] node = "emailcal.supervisor" -> RIdentityMap({"calendar", "email", END})
      [] node = "research.supervisor" ->
            RIdentityMap({"research", "analysis", "report", END})

\* The router function given to add_conditional_edges for the node.
RouterOf(node, state) ==
    CASE RGraphOf(node) = "sales" -> route_conversation(state)
      [] RGraphOf(node) = "project" -> route_workflow(state)
      [] node = "coordinator.coordinator" -> route_to_team(state)
      [] node = "hier.top_supervisor" -> route_from_top_supervisor(state)
      [] node = "hier.communication_team" -> route_from_communication_team(state)
      [] node = "hier.scheduling_team" -> route_from_scheduling_team(state)
      [] node = "manual.supervisor" -> route_supervisor(state)
      [] node = "emailcal.supervisor" -> route_after_supervisor(state)
      [] node = "research.supervisor" -> research_route_supervisor(state)

RStageValues ==
    {None, "start", "qualifying", "closing", "disqualified", "complete",
     "planning", "execution", "review", "paused"}

RNextValues ==
    {Unset, "FINISH", "__start__", "communication", "scheduling", "email",
     "slack", "calendar", "meeting", "flight", "hotel", "research",
     "analysis", "report", "tech", "billing", "none", "later"}

\* The states a router is applied to: the channels it reads.
RouterStates(node) ==
    CASE RGraphOf(node) = "sales" -> [current_stage : RStageValues]
      [] RGraphOf(node) = "project" ->
            [current_stage : RStageValues, planning_complete : BOOLEAN,
             execution_complete : BOOLEAN, review_complete : BOOLEAN]
      [] node = "coordinator.coordinator" -> [assigned_team : RNextValues]
      [] node = "hier.top_supervisor" -> [next_team : RNextValues]
      [] OTHER -> [next_agent : RNextValues]

NoRoute == [route |-> "", mapped |-> FALSE, dest |-> ""]

\* A state reaches the node's conditional edge.
RDraw(node, state) ==
    /\ rPc \in {"idle", "routed"}
    /\ rPc' = "drawn"
    /\ rNode' = node
    /\ rState' = state
    /\ rOut' = NoRoute
    /\ UNCHANGED <<projVars, hierVars, salesVars, hitlVars, manualVars, usersVars, researchVars, coordVars, testVars, ragVars, sessionVars>>

\* The engine calls the router and looks its value up in the mapping.
RApply ==
    /\ rPc = "drawn"
    /\ rPc' = "routed"
    /\ LET route == RouterOf(rNode, rState)
           mapped == route \in DOMAIN ConditionalEdges(rNode)
       IN  rOut' = [route |-> route, mapped |-> mapped,
                    dest |-> IF mapped THEN ConditionalEdges(rNode)[route] ELSE ""]
    /\ UNCHANGED <<rNode, rState>>
    /\ UNCHANGED <<projVars, hierVars, salesVars, hitlVars, manualVars, usersVars, researchVars, coordVars, testVars, ragVars, sessionVars>>

InitRouterVars ==
    /\ rPc = "idle"
    /\ rNode = "sales.qualifier"
    /\ rState = [current_stage |-> None]
    /\ rOut = NoRoute

NextRouters ==
    \/ \E node \in RouterNodes : \E state \in RouterStates(node) : RDraw(node, state)
    \/ RApply

(***************************************************************************)
(* Sales conversations of several users (sales_qualification.py, main).    *)
(* Every user talks on the thread his or her user id names; the calls and  *)
(* supersteps of different users interleave.  uAlone and uAloneRun follow, *)
(* for each user, the execution in which the other users do nothing.       *)
(***************************************************************************)
UUsers == {"@sarah_coach", "@broke_user"}

\* A config that puts every user on one thread.
SConfig_one_thread(user_id) == "@sarah_coach"

\* config = {"configurable": {"thread_id": user_id}}
SConfig(user_id) == user_id

UThreads == {SConfig(u) : u \in UUsers}

\* The thread is running for another user (per-thread execution lock).
UBusy(u) ==
    \E v \in UUsers \ {u} : uRun[v].pc = "streaming" /\ SConfig(v) = SConfig(u)

\* continue_conversation(user_id, message) on a thread that holds log: the
\* whole initial state is streamed (start_new_conversation) when the thread
\* has no state, the new message otherwise; the engine applies the input to
\* the latest checkpoint and starts at the entry node.
UStreamOn(log, user_id, message) ==
    LET found == Len(log) > 0
        input == IF found THEN [messages |-> <<message>>]
                 ELSE SalesInitialState(user_id, message, SNow(log))
        base == IF found THEN log[Len(log)].values ELSE SalesDefaults
        values == ApplyWrite(base, input)
        newlog == Commit(log, values, {"qualifier"}, "input")
    IN  [log |-> newlog,
         run |-> [IdleRun EXCEPT !.pc = "streaming",
                                 !.thread = SConfig(user_id),
                                 !.message = message,
                                 !.seen = found,
                                 !.base = newlog[Len(newlog)].id,
                                 !.values = values,
                                 !.next = {"qualifier"}]]

\* One superstep of a run on a thread that holds log.
UStepOn(log, run, node) ==
    LET values == ApplyWrite(run.values,
                             SalesNodeWrite(node, run.values, SNow(log)))
        next == SalesEdge(route_conversation(values))
        newlog == CommitChild(log, run.base, values, next, "loop")
    IN  [log |-> newlog,
         run |-> IF next = {}
                 THEN [IdleRun EXCEPT !.result = Completed(values)]
                 ELSE [run EXCEPT !.base = newlog[Len(newlog)].id,
                                  !.values = values,
                                  !.next = next,
                                  !.trace = Append(@, node)]]

\* A user's message arrives: continue_conversation reads the thread's state
\* and streams the graph.  A call on a running thread is rejected by the
\* engine and changes nothing.
UCall(u, message) ==
    /\ uRun[u].pc = "idle"
    /\ uAloneRun[u].pc = "idle"
    /\ ~UBusy(u)
    /\ Len(uStore[SConfig(u)]) < MaxUserCheckpoints
    /\ Len(uAlone[u]) < MaxUserCheckpoints
    /\ LET real == UStreamOn(uStore[SConfig(u)], u, message)
           alone == UStreamOn(uAlone[u], u, message)
       IN  /\ uStore' = [uStore EXCEPT ![SConfig(u)] = real.log]
           /\ uRun' = [uRun EXCEPT ![u] = real.run]
           /\ uAlone' = [uAlone EXCEPT ![u] = alone.log]
           /\ uAloneRun' = [uAloneRun EXCEPT ![u] = alone.run]
    /\ UNCHANGED <<projVars, hierVars, salesVars, hitlVars, manualVars, routerVars,
                   researchVars, coordVars, testVars, ragVars, sessionVars>>

\* One superstep of the user's run.
UStep(u) ==
    /\ uRun[u].pc = "streaming"
    /\ uAloneRun[u].pc = "streaming"
    /\ Len(uStore[SConfig(u)]) < MaxUserCheckpoints
    /\ Len(uAlone[u]) < MaxUserCheckpoints
    /\ \E node \in uRun[u].next, anode \in uAloneRun[u].next :
         LET real == UStepOn(uStore[SConfig(u)], uRun[u], node)
             alone == UStepOn(uAlone[u], uAloneRun[u], anode)
         IN  /\ uStore' = [uStore EXCEPT ![SConfig(u)] = real.log]
             /\ uRun' = [uRun EXCEPT ![u] = real.run]
             /\ uAlone' = [uAlone EXCEPT ![u] = alone.log]
             /\ uAloneRun' = [uAloneRun EXCEPT ![u] = alone.run]
    /\ UNCHANGED <<projVars, hierVars, salesVars, hitlVars, manualVars, routerVars,
                   researchVars, coordVars, testVars, ragVars, sessionVars>>

\* chat_with_user: KeyboardInterrupt ends the call between two supersteps.
UStop(u) ==
    /\ uRun[u].pc = "streaming"
    /\ uRun' = [uRun EXCEPT ![u] = IdleRun]
    /\ uAloneRun' = [uAloneRun EXCEPT ![u] = IdleRun]
    /\ UNCHANGED <<uStore, uAlone>>
    /\ UNCHANGED <<projVars, hierVars, salesVars, hitlVars, manualVars, routerVars,
                   researchVars, coordVars, testVars, ragVars, sessionVars>>

InitUsersVars ==
    /\ uStore = [t \in UThreads |-> <<>>]
    /\ uRun = [u \in UUsers |-> IdleRun]
    /\ uAlone = [u \in UUsers |-> <<>>]
    /\ uAloneRun = [u \in UUsers |-> IdleRun]

NextUsers ==
    \E u \in UUsers :
        \/ \E message \in UserMessages : UCall(u, message)
        \/ UStep(u)
        \/ UStop(u)

(***************************************************************************)
(* Shared-state research graph (shared-state-langgraph-multi-agent-demo).  *)
(* The graph is compiled without a checkpointer: a run keeps its state in  *)
(* memory.  A model reply is "" (empty content), "plain" (content without  *)
(* the KEY FINDINGS and CONFIDENCE sections) or "full".                    *)
(***************************************************************************)
GReplies == {"", "plain", "full"}

\* What the research agent's messages hold: structured search results,
\* search content without structure, or no tool message at all.
\* What the supervisor's model may answer.
GDecisions == {"research", "analysis", "report", "FINISH"}

GSearches == {"structured", "content", "none"}

GEmptyState ==
    [messages |-> <<>>, research_query |-> "", web_results |-> <<>>,
     sources |-> <<>>, key_findings |-> <<>>, analysis |-> "",
     confidence_score |-> "0.0", final_report |-> "",
     current_step |-> "", completed_steps |-> <<>>, next_agent |-> Unset]

\* initial_state of main
GInitialState ==
    [messages |-> <<"human">>, research_query |-> "query", web_results |-> <<>>,
     sources |-> <<>>, key_findings |-> <<>>, analysis |-> "",
     confidence_score |-> "0.0", final_report |-> "",
     current_step |-> "Starting", completed_steps |-> <<>>,
     next_agent |-> "research"]

\* search: what the research agent's messages hold.
research_agent_node(state, search) ==
    [messages |-> state.messages \o <<"research">>,
     web_results |-> CASE search = "structured" -> <<"result", "result">>
                       [] search = "content" -> <<"content">>
                       [] search = "none" -> <<"fallback">>,
     sources |-> IF search = "structured" THEN <<"url", "url">> ELSE <<"tavily">>]

\* content: the model's reply.
analysis_agent_node(state, content) ==
    IF state.web_results = <<>>
    THEN [messages |-> <<"no results">>,
          key_findings |-> <<>>,
          analysis |-> "No data available for analysis.",
          confidence_score |-> "0.0"]
    ELSE [messages |-> <<"analysis">>,
          key_findings |-> IF content = "full" THEN <<"finding">> ELSE <<>>,
          analysis |-> content,
          confidence_score |-> IF content = "full" THEN "parsed" ELSE "0.7"]

report_agent_node(state, content) ==
    IF state.analysis = ""
    THEN [messages |-> <<"no analysis">>,
          final_report |-> "Unable to generate report: No analysis data."]
    ELSE [messages |-> <<"report">>, final_report |-> content]

\* A supervisor that asks for the report as soon as there are web results.
research_supervisor_node_skips_analysis(state, response) ==
    LET next_agent == IF state.web_results = <<>> THEN "research"
                      ELSE IF state.final_report = "" THEN "report"
                      ELSE "FINISH"
    IN  [messages |-> <<response>>,
         next_agent |-> next_agent,
         current_step |-> next_agent,
         completed_steps |-> state.completed_steps]

\* A supervisor that routes to the agent the model's reply names.
research_supervisor_node_asks_model(state, response) ==
    [messages |-> <<response>>,
     next_agent |-> response,
     current_step |-> response,
     completed_steps |-> state.completed_steps]

\* supervisor_node of the research graph: the decision is taken from the
\* shared state; response, the model's reply, only goes to the messages.
research_supervisor_node(state, response) ==
    LET completed_steps == state.completed_steps
        next_agent == IF state.web_results = <<>> THEN "research"
                      ELSE IF state.analysis = "" THEN "analysis"
                      ELSE IF state.final_report = "" THEN "report"
                      ELSE "FINISH"
        current_step == CASE next_agent = "research" -> "Gathering research"
                          [] next_agent = "analysis" -> "Analyzing findings"
                          [] next_agent = "report" -> "Creating report"
                          [] next_agent = "FINISH" -> "Complete"
        known == \E i \in 1..Len(completed_steps) : completed_steps[i] = current_step
    IN  [messages |-> <<response>>,
         next_agent |-> next_agent,
         current_step |-> current_step,
         completed_steps |-> IF next_agent # "FINISH" /\ ~known
                             THEN Append(completed_steps, current_step)
                             ELSE completed_steps]

GWorkers == {"research", "analysis", "report"}

\* The edges of create_research_graph.
GEdges(node, state) ==
    IF node = "supervisor"
    THEN IF research_route_supervisor(state) = "__end__" THEN {}
         ELSE {research_route_supervisor(state)}
    ELSE {"supervisor"}

GNodeWrite(node, state, content, search) ==
    CASE node = "supervisor" -> research_supervisor_node(state, content)
      [] node = "research" -> research_agent_node(state, search)
      [] node = "analysis" -> analysis_agent_node(state, content)
      [] node = "report" -> report_agent_node(state, content)

\* graph.stream(initial_state)
GStart ==
    /\ gStatus # "running"
    /\ gValues' = ApplyWrite(GEmptyState, GInitialState)
    /\ gFrontier' = {"supervisor"}
    /\ gTrace' = <<>>
    /\ gEmpty' = 0
    /\ gStatus' = "running"
    /\ gResult' = NoResult
    /\ UNCHANGED <<projVars, hierVars, salesVars, hitlVars, manualVars, routerVars,
                   usersVars, coordVars, testVars, ragVars, sessionVars>>

\* One superstep: the frontier's node runs on the shared state, its write
\* is merged and its edges give the next frontier.
GStep ==
    /\ gStatus = "running"
    /\ Len(gTrace) < MaxResearchSteps
    /\ \E node \in gFrontier, content \in GReplies \cup GDecisions,
          search \in GSearches :
         /\ (node = "supervisor" => content \in GDecisions)
         /\ (node \in {"analysis", "report"} => content \in GReplies)
         /\ (node = "research" => content = "full")
         /\ (node # "research" => search = "none")
         /\ LET values == ApplyWrite(gValues, GNodeWrite(node, gValues, content, search))
                next == GEdges(node, values)
            IN  /\ gValues' = values
                /\ gFrontier' = next
                /\ gTrace' = Append(gTrace, node)
                /\ gEmpty' = IF content = "" THEN gEmpty + 1 ELSE gEmpty
                /\ gStatus' = IF next = {} THEN "halted" ELSE "running"
                /\ gResult' = IF next = {} THEN Completed(values) ELSE NoResult
    /\ UNCHANGED <<projVars, hierVars, salesVars, hitlVars, manualVars, routerVars,
                   usersVars, coordVars, testVars, ragVars, sessionVars>>

\* The node's model call raises: the step is aborted.
GStepFail ==
    /\ gStatus = "running"
    /\ gFrontier # {}
    /\ gStatus' = "failed"
    /\ gResult' = Failed("ModelUnavailable")
    /\ UNCHANGED <<gValues, gFrontier, gTrace, gEmpty>>
    /\ UNCHANGED <<projVars, hierVars, salesVars, hitlVars, manualVars, routerVars,
                   usersVars, coordVars, testVars, ragVars, sessionVars>>

InitResearchVars ==
    /\ gStatus = "idle"
    /\ gValues = GEmptyState
    /\ gFrontier = {}
    /\ gTrace = <<>>
    /\ gEmpty = 0
    /\ gResult = NoResult

NextResearch ==
    \/ GStart
    \/ GStep
    \/ GStepFail

(***************************************************************************)
(* Customer-support coordinator (supervisor-subgraph-pattern-demo-         *)
(* langgraph): a parent graph with a checkpointer whose team nodes invoke  *)
(* compiled subgraphs.  A message is given by the set of keywords its text *)
(* contains.                                                               *)
(***************************************************************************)
\* Replies of the coordinator's model.
KResponses == SUBSET {"tech", "billing"}

\* Last message of the tech agent and of the billing agent.
KTechReplies == SUBSET {"ticket created", "operational"}

KBillingReplies == SUBSET {"refund processed", "subscription updated"}

\* CoordinatorState
CoordinatorEmpty == [messages |-> <<>>, assigned_team |-> Unset]

\* TechSupportState
TechSupportEmpty ==
    [messages |-> <<>>, ticket_created |-> Unset, issue_resolved |-> Unset]

\* BillingState
BillingEmpty ==
    [messages |-> <<>>, refund_processed |-> Unset,
     subscription_updated |-> Unset]

\* A coordinator that takes the reply as the team's name.
coordinator_node_trusts_reply(state, response) ==
    [messages |-> <<response>>,
     assigned_team |-> IF response = {"tech"} THEN "tech"
                       ELSE IF response = {"billing"} THEN "billing"
                       ELSE IF response = {} THEN "none"
                       ELSE "tech billing"]

coordinator_node(state, response) ==
    [messages |-> <<response>>,
     assigned_team |-> IF "tech" \in response THEN "tech"
                       ELSE IF "billing" \in response THEN "billing"
                       ELSE "none"]

\* reply: the last message the tech agent produces.
tech_agent_node(state, reply) ==
    LET result == [messages |-> state.messages \o <<reply>>]
        last_message == result.messages[Len(result.messages)]
    IN  [messages |-> result.messages,
         ticket_created |-> "ticket created" \in last_message,
         issue_resolved |-> "operational" \in last_message]

billing_agent_node(state, reply) ==
    LET result == [messages |-> state.messages \o <<reply>>]
        last_message == result.messages[Len(result.messages)]
    IN  [messages |-> result.messages,
         refund_processed |-> "refund processed" \in last_message,
         subscription_updated |-> "subscription updated" \in last_message]

\* tech_support_subgraph.invoke(input): START -> tech_agent -> END on a
\* fresh TechSupportState.
tech_support_subgraph(input, reply) ==
    LET state == ApplyWrite(TechSupportEmpty, input)
    IN  ApplyWrite(state, tech_agent_node(state, reply))

billing_subgraph(input, reply) ==
    LET state == ApplyWrite(BillingEmpty, input)
    IN  ApplyWrite(state, billing_agent_node(state, reply))

\* A team node that hands the subgraph the parent's state and returns the
\* subgraph's state.
tech_team_node_shares_state(state, reply) ==
    LET result == tech_support_subgraph(state, reply)
    IN  [input |-> state, result |-> result, write |-> result]

\* The team nodes: input is what the subgraph is invoked with, result its
\* final state, write what the node returns to the parent graph.
tech_team_node(state, reply) ==
    LET input == [messages |-> state.messages]
        result == tech_support_subgraph(input, reply)
    IN  [input |-> input, result |-> result,
         write |-> [messages |-> result.messages]]

billing_team_node(state, reply) ==
    LET input == [messages |-> state.messages]
        result == billing_subgraph(input, reply)
    IN  [input |-> input, result |-> result,
         write |-> [messages |-> result.messages]]

clarification_node(state) == [messages |-> <<{"clarify"}>>]

KTeamNodes == {"tech_team", "billing_team", "clarification"}

\* The edges of create_coordinator_graph.
KEdges(node, state) ==
    IF node = "coordinator"
    THEN IF route_to_team(state) = "__end__" THEN {}
         ELSE {route_to_team(state)}
    ELSE {}

KNoCall == [team |-> "none"]

KLatestValues == IF Len(kStore) = 0 THEN CoordinatorEmpty
                 ELSE kStore[Len(kStore)].values

\* graph.stream({"messages": [HumanMessage]}, config): the input is merged
\* into the thread's latest state and the run starts at coordinator.
KStream ==
    /\ kStatus # "running"
    /\ kRuns < MaxCoordRuns
    /\ LET values == ApplyWrite(KLatestValues, [messages |-> <<{"human"}>>])
       IN  kStore' = Commit(kStore, values, {"coordinator"}, "input")
    /\ kStatus' = "running"
    /\ kRuns' = kRuns + 1
    /\ kTrace' = <<>>
    /\ kAssigned' = Unset
    /\ kCall' = KNoCall
    /\ kResult' = NoResult
    /\ UNCHANGED kSub
    /\ UNCHANGED <<projVars, hierVars, salesVars, hitlVars, manualVars, routerVars,
                   usersVars, researchVars, testVars, ragVars, sessionVars>>

\* The superstep of coordinator.
KCoordinatorStep ==
    /\ kStatus = "running"
    /\ kStore[Len(kStore)].next = {"coordinator"}
    /\ \E response \in KResponses :
         LET w == coordinator_node(KLatestValues, response)
             values == ApplyWrite(KLatestValues, w)
             next == KEdges("coordinator", values)
         IN  /\ kStore' = Commit(kStore, values, next, "loop")
             /\ kAssigned' = IF "assigned_team" \in DOMAIN w
                             THEN w.assigned_team ELSE Unset
             /\ kStatus' = IF next = {} THEN "halted" ELSE "running"
             /\ kResult' = IF next = {} THEN Completed(values) ELSE NoResult
    /\ kTrace' = Append(kTrace, "coordinator")
    /\ UNCHANGED <<kRuns, kCall, kSub>>
    /\ UNCHANGED <<projVars, hierVars, salesVars, hitlVars, manualVars, routerVars,
                   usersVars, researchVars, testVars, ragVars, sessionVars>>

\* The superstep of a team node: the team's subgraph runs to its end inside
\* the node.
KTeamStep ==
    /\ kStatus = "running"
    /\ \E node \in KTeamNodes \cap kStore[Len(kStore)].next,
          tech \in KTechReplies, billing \in KBillingReplies :
         /\ (node # "tech_team" => tech = {})
         /\ (node # "billing_team" => billing = {})
         /\ LET call == CASE node = "tech_team" ->
                               tech_team_node(KLatestValues, tech)
                          [] node = "billing_team" ->
                               billing_team_node(KLatestValues, billing)
                          [] node = "clarification" ->
                               [write |-> clarification_node(KLatestValues)]
                values == ApplyWrite(KLatestValues, call.write)
                next == KEdges(node, values)
            IN  /\ kStore' = Commit(kStore, values, next, "loop")
                /\ kCall' = IF node = "clarification" THEN KNoCall
                            ELSE [team |-> node, input |-> call.input,
                                  result |-> call.result, write |-> call.write]
                /\ kSub' = CASE node = "tech_team" ->
                                  [kSub EXCEPT !.tech = call.result]
                             [] node = "billing_team" ->
                                  [kSub EXCEPT !.billing = call.result]
                             [] node = "clarification" -> kSub
                /\ kTrace' = Append(kTrace, node)
                /\ kStatus' = "halted"
                /\ kResult' = Completed(values)
    /\ UNCHANGED <<kRuns, kAssigned>>
    /\ UNCHANGED <<projVars, hierVars, salesVars, hitlVars, manualVars, routerVars,
                   usersVars, researchVars, testVars, ragVars, sessionVars>>

\* The model call of the step's node raises: the run is aborted and the
\* step leaves no checkpoint.
KStepFail ==
    /\ kStatus = "running"
    /\ kStatus' = "failed"
    /\ kResult' = Failed("ModelUnavailable")
    /\ UNCHANGED <<kStore, kRuns, kTrace, kAssigned, kCall, kSub>>
    /\ UNCHANGED <<projVars, hierVars, salesVars, hitlVars, manualVars, routerVars,
                   usersVars, researchVars, testVars, ragVars, sessionVars>>

InitCoordVars ==
    /\ kStore = <<>>
    /\ kStatus = "idle"
    /\ kRuns = 0
    /\ kTrace = <<>>
    /\ kAssigned = Unset
    /\ kCall = KNoCall
    /\ kSub = [tech |-> TechSupportEmpty, billing |-> BillingEmpty]
    /\ kResult = NoResult

NextCoord ==
    \/ KStream
    \/ KCoordinatorStep
    \/ KTeamStep
    \/ KStepFail

(***************************************************************************)
(* simple_test: the project workflow is streamed from a fresh initial      *)
(* state on thread "test-1" and the loop over the stream's events breaks   *)
(* when the event index exceeds 5.                                         *)
(***************************************************************************)
\* The numbers of task lines the model's plan may hold.
TParsed == 0..(MaxTasks + 1)

\* if i > 5: break
SafetyLimit == 5

\* graph.stream(initial_state, config): the input is merged into the
\* thread's values and the run starts at planning.
TStream ==
    /\ tStatus # "running"
    /\ tRuns < MaxTestRuns
    /\ tRuns' = tRuns + 1
    /\ tValues' = ApplyWrite(tValues, ProjectInitialState)
    /\ tFrontier' = {"planning"}
    /\ tTrace' = <<>>
    /\ tBroke' = FALSE
    /\ tStatus' = "running"
    /\ UNCHANGED <<projVars, hierVars, salesVars, hitlVars, manualVars, routerVars,
                   usersVars, researchVars, coordVars, ragVars, sessionVars>>

\* One superstep and the loop body for its event: enumerate gives the
\* event the index Len(tTrace).
TStep ==
    /\ tStatus = "running"
    /\ \E node \in tFrontier, parsed \in TParsed :
         /\ (node # "planning" => parsed = 0)
         /\ LET values == ApplyWrite(tValues, ProjectNodeWrite(node, tValues, parsed))
                next == ProjectEdge(route_workflow(values))
                i == Len(tTrace)
            IN  /\ tValues' = values
                /\ tFrontier' = next
                /\ tTrace' = Append(tTrace, node)
                /\ tBroke' = (i > SafetyLimit)
                /\ tStatus' = IF i > SafetyLimit THEN "cancelled"
                              ELSE IF next = {} THEN "halted" ELSE "running"
    /\ UNCHANGED tRuns
    /\ UNCHANGED <<projVars, hierVars, salesVars, hitlVars, manualVars, routerVars,
                   usersVars, researchVars, coordVars, ragVars, sessionVars>>

\* The node's model call raises: simple_test prints the error and exits.
TStepFail ==
    /\ tStatus = "running"
    /\ tStatus' = "failed"
    /\ UNCHANGED <<tValues, tFrontier, tTrace, tBroke, tRuns>>
    /\ UNCHANGED <<projVars, hierVars, salesVars, hitlVars, manualVars, routerVars,
                   usersVars, researchVars, coordVars, ragVars, sessionVars>>

InitTestVars ==
    /\ tValues = ProjectDefaults
    /\ tFrontier = {}
    /\ tTrace = <<>>
    /\ tBroke = FALSE
    /\ tStatus = "idle"
    /\ tRuns = 0

NextTest ==
    \/ TStream
    \/ TStep
    \/ TStepFail

(***************************************************************************)
(* Agentic RAG graph (agentic-rag-simple-demo): one node, agent, between   *)
(* START and END, compiled with a MemorySaver.  A message is given by its  *)
(* kind and by whether it carries tool calls.                              *)
(***************************************************************************)
AThreads == {"test-1", "test-2"}

\* AgenticRAGState
AgenticRAGEmpty == [messages |-> <<>>, retrieval_used |-> Unset]

AMessage(kind, tool_calls) == [kind |-> kind, tool_calls |-> tool_calls]

\* calls_tool: the agent calls retrieve_langgraph_docs while it answers.
\* agent.invoke(state) returns the messages it was given followed by the
\* messages of this answer.
agent_node(state, calls_tool) ==
    LET result ==
            [messages |-> state.messages \o
                (IF calls_tool
                 THEN <<AMessage("ai", TRUE), AMessage("tool", FALSE),
                        AMessage("ai", FALSE)>>
                 ELSE <<AMessage("ai", FALSE)>>)]
        messages == result.messages
        retrieval_used == \E i \in 1..Len(messages) : messages[i].tool_calls
    IN  [messages |-> result.messages, retrieval_used |-> retrieval_used]

\* graph.stream({"messages": [HumanMessage(content=query)]}, config)
AStream(t) ==
    /\ aStatus[t] # "running"
    /\ aRuns[t] < MaxRagRuns
    /\ aRuns' = [aRuns EXCEPT ![t] = @ + 1]
    /\ aValues' = [aValues EXCEPT ![t] =
                     ApplyWrite(@, [messages |-> <<AMessage("human", FALSE)>>])]
    /\ aStatus' = [aStatus EXCEPT ![t] = "running"]
    /\ UNCHANGED aCalled
    /\ UNCHANGED <<projVars, hierVars, salesVars, hitlVars, manualVars, routerVars,
                   usersVars, researchVars, coordVars, testVars, sessionVars>>

\* The superstep of agent; its only edge leads to END.
AAgentStep(t) ==
    /\ aStatus[t] = "running"
    /\ \E calls_tool \in BOOLEAN :
         /\ aValues' = [aValues EXCEPT ![t] =
                          ApplyWrite(@, agent_node(@, calls_tool))]
         /\ aCalled' = [aCalled EXCEPT ![t] = calls_tool]
    /\ aStatus' = [aStatus EXCEPT ![t] = "halted"]
    /\ UNCHANGED aRuns
    /\ UNCHANGED <<projVars, hierVars, salesVars, hitlVars, manualVars, routerVars,
                   usersVars, researchVars, coordVars, testVars, sessionVars>>

\* The agent's model call raises: the step is aborted.
AStepFail(t) ==
    /\ aStatus[t] = "running"
    /\ aStatus' = [aStatus EXCEPT ![t] = "failed"]
    /\ UNCHANGED <<aValues, aCalled, aRuns>>
    /\ UNCHANGED <<projVars, hierVars, salesVars, hitlVars, manualVars, routerVars,
                   usersVars, researchVars, coordVars, testVars, sessionVars>>

InitRagVars ==
    /\ aValues = [t \in AThreads |-> AgenticRAGEmpty]
    /\ aStatus = [t \in AThreads |-> "idle"]
    /\ aCalled = [t \in AThreads |-> FALSE]
    /\ aRuns = [t \in AThreads |-> 0]

NextRag ==
    \E t \in AThreads :
        \/ AStream(t)
        \/ AAgentStep(t)
        \/ AStepFail(t)

(***************************************************************************)
(* interactive_sales: one user's chat session over the sales workflow.     *)
(* The session reads the thread's state once, when it opens, and keeps the *)
(* flag first_message.                                                     *)
(***************************************************************************)
XUser == "@demo_user"

\* main, before the chat loop: state = graph.get_state(config);
\* first_message = True
XOpen ==
    /\ xPc = "closed"
    /\ xPc' = "prompt"
    /\ xSeen' = (Len(xStore) > 0)
    /\ xFirst' = TRUE
    /\ xFn' = "none"
    /\ UNCHANGED xStore
    /\ UNCHANGED <<projVars, hierVars, salesVars, hitlVars, manualVars, routerVars,
                   usersVars, researchVars, coordVars, testVars, ragVars>>

\* The chat loop sends a message: start_new_conversation when
\* first_message and not state.values, continue_conversation otherwise;
\* continue_conversation starts a new conversation itself when get_state
\* finds no values.  Either way the input is streamed into the thread.
XSend(message) ==
    /\ xPc = "prompt"
    /\ Len(xStore) < MaxSessionCheckpoints
    /\ LET fn == IF xFirst /\ ~xSeen THEN "start"
                 ELSE IF Len(xStore) = 0 THEN "start_in_continue"
                 ELSE "continue"
           now == SNow(xStore)
           input == IF fn = "continue" THEN [messages |-> <<message>>]
                    ELSE SalesInitialState(XUser, message, now)
           base == IF Len(xStore) = 0 THEN SalesDefaults
                   ELSE xStore[Len(xStore)].values
       IN  /\ xStore' = Commit(xStore, ApplyWrite(base, input), {"qualifier"}, "input")
           /\ xFn' = fn
    /\ xPc' = "streaming"
    /\ UNCHANGED <<xSeen, xFirst>>
    /\ UNCHANGED <<projVars, hierVars, salesVars, hitlVars, manualVars, routerVars,
                   usersVars, researchVars, coordVars, testVars, ragVars>>

\* One superstep of the call's run; when the run halts the call returns
\* and, after start_new_conversation, first_message = False.
XStep ==
    /\ xPc = "streaming"
    /\ Len(xStore) < MaxSessionCheckpoints
    /\ \E node \in xStore[Len(xStore)].next :
         LET state == xStore[Len(xStore)].values
             values == ApplyWrite(state, SalesNodeWrite(node, state, SNow(xStore)))
             next == SalesEdge(route_conversation(values))
         IN  /\ xStore' = Commit(xStore, values, next, "loop")
             /\ xPc' = IF next = {} THEN "prompt" ELSE "streaming"
             /\ xFirst' = IF next = {} /\ xFn = "start" THEN FALSE ELSE xFirst
    /\ UNCHANGED <<xSeen, xFn>>
    /\ UNCHANGED <<projVars, hierVars, salesVars, hitlVars, manualVars, routerVars,
                   usersVars, researchVars, coordVars, testVars, ragVars>>

\* The node's model call raises: except Exception prints the error and the
\* chat loop goes on.
XFail ==
    /\ xPc = "streaming"
    /\ \E node \in xStore[Len(xStore)].next :
         SalesCallsModel(node, xStore[Len(xStore)].values)
    /\ xPc' = "prompt"
    /\ UNCHANGED <<xStore, xSeen, xFirst, xFn>>
    /\ UNCHANGED <<projVars, hierVars, salesVars, hitlVars, manualVars, routerVars,
                   usersVars, researchVars, coordVars, testVars, ragVars>>

\* 'quit' at the prompt or KeyboardInterrupt: the session ends.
XQuit ==
    /\ xPc \in {"prompt", "streaming"}
    /\ xPc' = "closed"
    /\ UNCHANGED <<xStore, xSeen, xFirst, xFn>>
    /\ UNCHANGED <<projVars, hierVars, salesVars, hitlVars, manualVars, routerVars,
                   usersVars, researchVars, coordVars, testVars, ragVars>>

InitSessionVars ==
    /\ xStore = <<>>
    /\ xPc = "closed"
    /\ xSeen = FALSE
    /\ xFirst = TRUE
    /\ xFn = "none"

NextSession ==
    \/ XOpen
    \/ \E message \in UserMessages : XSend(message)
    \/ XStep
    \/ XFail
    \/ XQuit

(***************************************************************************)
(* Specifications, one per sub-model.                                      *)
(***************************************************************************)
InitAll ==
    /\ InitProjectVars
    /\ InitHierVars
    /\ InitSalesVars
    /\ InitHitlVars
    /\ InitManualVars
    /\ InitRouterVars
    /\ InitUsersVars
    /\ InitResearchVars
    /\ InitCoordVars
    /\ InitTestVars
    /\ InitRagVars
    /\ InitSessionVars

InitProject == InitAll

SpecProject == InitProject /\ [][NextProject]_vars

InitHier == InitAll

SpecHier == InitHier /\ [][NextHier]_vars

InitSales == InitAll

SpecSales == InitSales /\ [][NextSales]_vars

InitHitl == InitAll

SpecHitl == InitHitl /\ [][NextHitl]_vars

InitManual == InitAll

SpecManual == InitManual /\ [][NextManual]_vars

InitRouters == InitAll

SpecRouters == InitRouters /\ [][NextRouters]_vars

InitUsers == InitAll

SpecUsers == InitUsers /\ [][NextUsers]_vars

InitResearch == InitAll

SpecResearch == InitResearch /\ [][NextResearch]_vars

InitCoord == InitAll

SpecCoord == InitCoord /\ [][NextCoord]_vars

InitTest == InitAll

SpecTest == InitTest /\ [][NextTest]_vars

InitRag == InitAll

SpecRag == InitRag /\ [][NextRag]_vars

InitSession == InitAll

SpecSession == InitSession /\ [][NextSession]_vars

(***************************************************************************)
(* Claims about the project workflow.                                      *)
(***************************************************************************)

\* C1: for every thread, the listed history is newest first, each entry's
\* parent is the entry listed right after it, the last entry is the
\* thread's first checkpoint (parent null), no checkpoint of the thread is
\* left out and none is listed twice.
C1_HistoryIsParentChain ==
    \A t \in PThreads :
        LET h == get_project_history(t)
        IN  /\ Len(h) = Len(pStore[t])
            /\ {h[i] : i \in 1..Len(h)} = {pStore[t][i] : i \in 1..Len(pStore[t])}
            /\ \A i \in 1..(Len(h) - 1) :
                   /\ h[i].parent = h[i + 1].id
                   /\ h[i].id > h[i + 1].id
            /\ (Len(h) > 0 => h[Len(h)].parent = Null)
            /\ \A i, j \in 1..Len(h) : i # j => h[i].id # h[j].id

\* A history that holds an input checkpoint, committed supersteps and a
\* state update, after a second start on the thread.
C1_Witness ==
    \E t \in PThreads :
        LET h == get_project_history(t)
        IN  /\ Len(h) >= 5
            /\ pStarts = 2
            /\ \E i \in 1..Len(h) : h[i].source = "update"
            /\ \E i \in 1..Len(h) : h[i].source = "loop"

\* C2: a failing superstep appends no checkpoint and gives the caller
\* Failed; a resume after the failure adds nothing to the history (it
\* continues from the last committed checkpoint), and a new run after the
\* failure appends exactly one checkpoint whose parent is the last
\* committed one.
C2_FailedStepCommitsNothing ==
    [][\A t \in PThreads :
        /\ (pStatus[t] = "running" /\ pStatus'[t] = "failed") =>
              /\ pStore'[t] = pStore[t]
              /\ pResult'[t].tag = "Failed"
        /\ (pStatus[t] = "failed" /\ pStatus'[t] # "failed" /\ pStarts' = pStarts) =>
              pStore'[t] = pStore[t]
        /\ (pStatus[t] = "failed" /\ pStarts' # pStarts) =>
              /\ Len(pStore'[t]) = Len(pStore[t]) + 1
              /\ SubSeq(pStore'[t], 1, Len(pStore[t])) = pStore[t]
              /\ HasState(pStore, t) =>
                    Latest(pStore', t).parent = Latest(pStore, t).id
      ]_vars

\* A thread that failed in a superstep after an earlier superstep was
\* committed.
C2_Witness ==
    \E t \in PThreads :
        /\ pStatus[t] = "failed"
        /\ pResult[t].tag = "Failed"
        /\ HasState(pStore, t)
        /\ Latest(pStore, t).source = "loop"

C3_TwoWriters ==
    \E i, j \in 1..Len(hTasks) :
        /\ i # j
        /\ \E ch \in {"next_team", "next_agent"} :
              ch \in DOMAIN hTasks[i].write /\ ch \in DOMAIN hTasks[j].write

\* C3: when the superstep that ends had two nodes writing the same
\* overwrite channel (next_team or next_agent), it ends Failed with
\* ConcurrentOverwriteConflict and the state after the step equals the
\* state before it (nothing is committed).
C3_OverwriteConflictAborts ==
    [][(/\ hStatus = "running"
        /\ hFrontier # {}
        /\ HDone = hFrontier
        /\ C3_TwoWriters
        /\ hTasks' # hTasks) =>
            /\ hStatus' = "failed"
            /\ hResult' = Failed("ConcurrentOverwriteConflict")
            /\ hValues' = hValues
            /\ hStep' = hStep
      ]_vars

\* The run failed with the conflict: communication_team and scheduling_team
\* ran in one superstep and both wrote next_agent.
C3_Witness ==
    /\ hStatus = "failed"
    /\ hResult = Failed("ConcurrentOverwriteConflict")
    /\ hFrontier = {"communication_team", "scheduling_team"}

\* C9: every node that has run in the current superstep read the pre-step
\* state, whatever other nodes of the step finished before it.
C9_ReadIsolation ==
    \A i \in 1..Len(hTasks) : hTasks[i].read = hValues

\* A worker agent and top_supervisor ran in the same superstep, the worker
\* after the supervisor had already produced its write.
C9_Witness ==
    /\ Len(hTasks) = 2
    /\ hTasks[1].node = "top_supervisor"
    /\ hTasks[2].node = "email"
    /\ hTasks[2].read = hValues
    /\ hTasks[2].write.messages = hValues.messages \o <<"email">>

RECURSIVE C10_Concat(_, _)
C10_Concat(order, tasks) ==
    IF order = <<>> THEN <<>>
    ELSE LET n == Head(order)
             mine == {i \in 1..Len(tasks) :
                         tasks[i].node = n /\ "messages" \in DOMAIN tasks[i].write}
         IN  (IF mine = {} THEN <<>>
              ELSE tasks[CHOOSE i \in mine : TRUE].write.messages)
             \o C10_Concat(Tail(order), tasks)

\* The order in which create_hierarchical_graph declares the nodes.
C10_DeclaredOrder ==
    <<"top_supervisor", "communication_team", "scheduling_team",
      "email", "slack", "calendar", "meeting">>

\* C10: every committed superstep leaves in messages the old value followed
\* by the writes of the step's nodes in the order the nodes are declared,
\* whatever the order in which the nodes finished.
C10_AppendInDeclaredOrder ==
    [][(hStep' = hStep + 1) =>
          hValues'.messages =
              hValues.messages \o C10_Concat(C10_DeclaredOrder, hTasks)
      ]_vars

\* The state after the superstep in which email and top_supervisor both
\* wrote messages: the old value, top_supervisor's message, then the
\* email agent's result.
C10_Witness ==
    LET old == <<"human", "top_supervisor", "communication_team">>
    IN  /\ hStep = 3
        /\ hValues.messages = old \o <<"top_supervisor">> \o (old \o <<"email">>)

(***************************************************************************)
(* Claims about the sales workflow.                                        *)
(***************************************************************************)
C4_NoFork ==
    \A t \in SThreads :
        /\ \A i, j \in 1..Len(sStore[t]) :
               i # j => sStore[t][i].parent # sStore[t][j].parent
        /\ \A c, d \in SCallers :
               (/\ c # d
                /\ sRun[c].pc = "streaming"
                /\ sRun[d].pc = "streaming") => sRun[c].thread # sRun[d].thread

C4_Rejected ==
    \A c, d \in SCallers :
        (/\ c # d
         /\ sRun[c].pc = "checked"
         /\ sRun'[c].pc # "checked"
         /\ sRun[d].pc = "streaming"
         /\ sRun[d].thread = sRun[c].thread) =>
            /\ sRun'[c].result = ThreadBusy
            /\ sRun'[c].pc = "idle"
            /\ sRun'[d] = sRun[d]
            /\ sStore' = sStore

\* C4: of two calls on one thread that overlap, one runs and the other is
\* rejected with ThreadBusy without touching the store; at no time do two
\* runs of a thread execute together, and no two checkpoints of a thread
\* have the same parent.
C4_OneRunPerThread == [](C4_NoFork) /\ [][C4_Rejected]_vars

\* One caller was rejected with ThreadBusy while the other caller's run of
\* the same thread is in flight with a committed superstep.
C4_Witness ==
    \E c, d \in SCallers :
        /\ c # d
        /\ sRun[c].result = ThreadBusy
        /\ sRun[d].pc = "streaming"
        /\ Len(sStore[sRun[d].thread]) >= 2
        /\ Latest(sStore, sRun[d].thread).source = "loop"

\* C6: when a tools step of the supervisor has raised several interrupts, a
\* resume that decides only some of the pending interrupt ids is answered
\* with InterruptUnresolved and leaves the thread Suspended with no new
\* checkpoint, no task resumed and no tool executed; the suspended step
\* moves on only in a step after which every interrupt id that was pending
\* has a decision.
C6_StepMoved ==
    \/ iStatus' # "suspended"
    \/ iCommits' # iCommits
    \/ iTasks' # iTasks
    \/ iExecuted' # iExecuted
    \/ iMessages' # iMessages

C6_PartialResumeStaysSuspended ==
    [][ iStatus = "suspended" =>
          /\ (C6_StepMoved =>
                \A id \in IPending : \E d \in iDecisions' : d.id = id)
          /\ (iResult'.tag = "InterruptUnresolved" /\ iResult' # iResult =>
                /\ iStatus' = "suspended"
                /\ ~C6_StepMoved) ]_vars

C6_Witness ==
    /\ iStatus = "suspended"
    /\ iResult.tag = "InterruptUnresolved"
    /\ Cardinality(IPending) = 2
    /\ Cardinality(iResult.supplied) = 1

\* C7: create_calendar_event and send_email, the tools listed in
\* interrupt_on, execute only for an interrupt that was resolved with
\* approve or edit, with the arguments that decision stands for, and an
\* interrupt resolved with reject has no execution.
C7_GatedToolsNeedDecision ==
    /\ \A e \in iExecuted :
         e.tool \in {"create_calendar_event", "send_email"} =>
            \E d \in iDecisions :
               /\ d.id = e.id
               /\ d.type \in {"approve", "edit"}
               /\ e.args = (IF d.type = "edit" THEN "edited" ELSE "orig")
    /\ \A d \in iDecisions :
         d.type = "reject" => ~\E e \in iExecuted : e.id = d.id

C7_Witness ==
    /\ \E e \in iExecuted : e.tool = "send_email" /\ e.args = "orig"
    /\ \E e \in iExecuted : e.tool = "create_calendar_event" /\ e.args = "edited"
    /\ \E d \in iDecisions : d.type = "reject"

\* C8: a run of the supervisor whose interrupts were all resolved with
\* approve ends with the same messages as the run of the supervisor
\* without the middleware on the same input and the same model replies.
C8_ApproveEqualsDirectRun ==
    (iStatus = "halted" /\ iAllApprove) => iMessages = iShadow

C8_Witness ==
    /\ iStatus = "halted"
    /\ iAllApprove
    /\ iPc = "done"
    /\ Cardinality(iDecisions) >= 2
    /\ iMessages = iShadow
    /\ \E i \in 1..Len(iMessages) :
         iMessages[i].kind = "tool" /\ Len(iMessages[i].outcome) > 0

\* C11: in the project workflow every step that commits (the input of
\* start_new_project, a superstep, an update_state) appends exactly one
\* checkpoint, whose parent is the checkpoint that was the thread's latest
\* (none for the first), and every checkpoint persisted before keeps its
\* id, values, parent, next and source.
C11_AppendOnlyWithParent ==
    [][ \A t \in PThreads :
          LET old == pStore[t]
              new == pStore'[t]
          IN  /\ Len(new) \in {Len(old), Len(old) + 1}
              /\ SubSeq(new, 1, Len(old)) = old
              /\ Len(new) = Len(old) + 1 =>
                   /\ new[Len(new)].parent =
                        (IF Len(old) = 0 THEN Null ELSE old[Len(old)].id)
                   /\ \A i \in 1..Len(old) : old[i].id # new[Len(new)].id ]_vars

C11_Witness ==
    \E t \in PThreads :
        /\ Len(pStore[t]) >= 5
        /\ \E i \in 2..Len(pStore[t]) : pStore[t][i].source = "input"
        /\ \E i \in 2..Len(pStore[t]) : pStore[t][i].source = "loop"
        /\ Latest(pStore, t).parent = pStore[t][Len(pStore[t]) - 1].id

\* C12: a time-travel (update_state with the values of a listed
\* checkpoint) leaves every checkpoint that existed before it in the
\* thread's history with the same values and parent, and afterwards the
\* thread's checkpoints are still one linear sequence: each checkpoint's
\* parent is the checkpoint before it.
C12_Linear(log) ==
    \A i \in 1..Len(log) :
        log[i].parent = (IF i = 1 THEN Null ELSE log[i - 1].id)

C12_TimeTravelKeepsHistory ==
    [][ pUpdates' # pUpdates =>
          \A t \in PThreads :
              /\ Len(pStore'[t]) >= Len(pStore[t])
              /\ \A i \in 1..Len(pStore[t]) :
                    /\ pStore'[t][i].values = pStore[t][i].values
                    /\ pStore'[t][i].parent = pStore[t][i].parent
                    /\ pStore'[t][i].id = pStore[t][i].id
              /\ C12_Linear(pStore'[t]) ]_vars

C12_Witness ==
    \E t \in PThreads :
        /\ Len(pStore[t]) >= 4
        /\ Latest(pStore, t).source = "update"
        /\ Latest(pStore, t).values.current_stage = "planning"
        /\ pStore[t][Len(pStore[t]) - 1].values.current_stage = "complete"

\* C20: resume_project continues where the run stopped.  The call commits
\* nothing and notes the latest checkpoint; the next superstep runs the
\* node that checkpoint names as next.  Without time-travel, planning and
\* review have run at most once per start_new_project, no task is
\* completed twice, and a halted thread has the three stage flags set,
\* stage "complete" and no pending task, as an uninterrupted run has.
C20_Count(seq, x) == Cardinality({i \in 1..Len(seq) : seq[i] = x})

C20_NoReexecution ==
    \A t \in PThreads :
        (HasState(pStore, t) /\ pUpdates = 0) =>
            LET v == Latest(pStore, t).values
            IN  /\ C20_Count(v.messages, "plan") <= pStarts
                /\ C20_Count(v.messages, "report") <= pStarts
                /\ \A i, j \in 1..Len(v.completed_tasks) :
                      v.completed_tasks[i] = v.completed_tasks[j] => i = j
                /\ pStatus[t] = "halted" =>
                      /\ v.planning_complete
                      /\ v.execution_complete
                      /\ v.review_complete
                      /\ v.current_stage = "complete"
                      /\ v.pending_tasks = <<>>

C20_ResumeStep ==
    \A t \in PThreads :
        (pStatus[t] \in {"idle", "failed"} /\ pStatus'[t] \in {"running", "halted"}
            /\ pStarts' = pStarts) =>
                /\ pStore'[t] = pStore[t]
                /\ pResumedAt'[t] = Latest(pStore, t).id
                /\ (pStatus'[t] = "halted") = (Latest(pStore, t).next = {})

C20_NextNodeRuns ==
    \A t \in PThreads :
        (pStatus[t] = "running" /\ Len(pStore'[t]) = Len(pStore[t]) + 1) =>
            LET node == CASE Latest(pStore', t).values.current_stage = "complete" -> "review"
                          [] Latest(pStore, t).values.planning_complete -> "execution"
                          [] OTHER -> "planning"
            IN  /\ Latest(pStore, t).next = {node}
                /\ (Latest(pStore, t).values.planning_complete =>
                      Latest(pStore', t).values.project_plan =
                          Latest(pStore, t).values.project_plan)

C20_ResumesWhereItLeftOff ==
    /\ [](C20_NoReexecution)
    /\ [][C20_ResumeStep /\ C20_NextNodeRuns]_vars

C20_Witness ==
    \E t \in PThreads :
        /\ pStatus[t] = "halted"
        /\ pUpdates = 0
        /\ pStarts = 1
        /\ pResumedAt[t] > 1
        /\ pResumedAt[t] < Len(pStore[t])
        /\ Latest(pStore, t).values.review_complete
        /\ Len(Latest(pStore, t).values.completed_tasks) = 7

\* C14: when a superstep of the hierarchical graph commits, the next
\* frontier holds every node that some edge of a node of the step
\* selected; the run halts exactly when that frontier is empty.  In
\* particular, when the router of one node of the step returns the
\* terminal marker while an edge of another node selects a real node, the
\* run stays Running with the selected nodes as its frontier.
C14_Disagree(nodes, state) ==
    \E n, m \in nodes :
        /\ n # m
        /\ HRoute(n, state) = "__end__"
        /\ HEdges(m, state) # {}

C14_ContinueTakesPrecedence ==
    [][ hStep' = hStep + 1 =>
          /\ hFrontier' = UNION {HEdges(n, hValues') : n \in hFrontier}
          /\ (hStatus' = "halted") = (hFrontier' = {})
          /\ hStatus' \in {"halted", "running"}
          /\ C14_Disagree(hFrontier, hValues') =>
                /\ hStatus' = "running"
                /\ hFrontier' # {} ]_vars

C14_Witness ==
    /\ hStatus = "running"
    /\ hTasks = <<>>
    /\ hStep = 3
    /\ hValues.next_team = "FINISH"
    /\ hFrontier = {"communication_team"}

\* C18: in every state of a run of the hierarchical graph the state, and
\* the snapshot every node has read, hold a value for each of the channels
\* messages, next_team and next_agent and for no other channel; with an
\* input of messages only, next_team and next_agent hold their initial
\* value until a supervisor writes them.  A stream call whose input names
\* an undeclared channel is rejected and changes neither the state, the
\* frontier nor the status.
C18_AllChannelsHaveValues ==
    /\ DOMAIN hValues = HDeclared
    /\ \A i \in 1..Len(hTasks) : DOMAIN hTasks[i].read = HDeclared
    /\ \A i \in 1..Len(hTasks) : DOMAIN hTasks[i].write \subseteq HDeclared
    /\ (hStatus = "running" /\ hStep = 0) =>
          hValues.next_team = Unset /\ hValues.next_agent = Unset

C18_UnknownRejected ==
    (~(DOMAIN hInput' \subseteq HDeclared) /\ hResult' # hResult) =>
        /\ hValues' = hValues
        /\ hStatus' = hStatus
        /\ hFrontier' = hFrontier
        /\ hResult' = Failed("UnknownChannel")

C19_Step ==
    Len(mTrace') = Len(mTrace) + 1 =>
        LET node == mTrace'[Len(mTrace')]
        IN  IF node = "supervisor"
            THEN /\ mValues'.next_agent \in MNextAgents
                 /\ (mStatus' = "halted") = (route_supervisor(mValues') = "__end__")
                 /\ mStatus' = "running" => mFrontier' = {mValues'.next_agent}
            ELSE /\ node = mValues.next_agent
                 /\ mValues'.next_agent = mValues.next_agent
                 /\ mStatus' = "running"
                 /\ mFrontier' = {"supervisor"}

C19_SupervisorDecides ==
    /\ [](Len(mTrace) >= 1 => mTrace[1] = "supervisor")
    /\ [][C19_Step]_vars

C19_Witness ==
    /\ mInput.next_agent = "flight"
    /\ mStatus = "halted"
    /\ mTrace = <<"supervisor", "hotel", "supervisor">>
    /\ mValues.next_agent = "FINISH"

\* C19 (as stated): a run with input {next_agent: "flight"} executes
\* flight before it halts.
C19_InputSelectsNode ==
    (mInput.next_agent = "flight" /\ mStatus = "halted") =>
        \E i \in 1..Len(mTrace) : mTrace[i] = "flight"

\* C15: the status of thread demo-1 moves only from Idle to Running, from
\* Running to Suspended, Halted or Failed, and from Suspended back to
\* Running by a resume.  The thread is Suspended exactly while an interrupt
\* is pending; while it is, a step that records no new decision executes no
\* tool, starts no task and commits no checkpoint.  Halted is entered only
\* from Running, with no node left to run.
C15_Moves ==
    {<<"idle", "running">>, <<"running", "suspended">>, <<"running", "halted">>,
     <<"running", "failed">>, <<"suspended", "running">>}

C15_StatusStep ==
    /\ iStatus' # iStatus => <<iStatus, iStatus'>> \in C15_Moves
    /\ (iStatus = "suspended" /\ iDecisions' = iDecisions) =>
          /\ iStatus' = "suspended"
          /\ iExecuted' = iExecuted
          /\ iCommits' = iCommits
          /\ iMessages' = iMessages
          /\ iTasks' = iTasks
    /\ (iStatus' = "halted" /\ iStatus # "halted") =>
          /\ iStatus = "running"
          /\ iNext' = "none"
          /\ IPending' = {}

C15_StatusMachine ==
    /\ []((iStatus = "suspended") = (IPending # {}))
    /\ [][C15_StatusStep]_vars

C15_Witness ==
    /\ iStatus = "halted"
    /\ iPc = "done"
    /\ iCommits = 6
    /\ \E d \in iDecisions : d.type = "reject"
    /\ \E d \in iDecisions : d.type = "edit"

\* C16: when continue_conversation found the conversation and its stream
\* call is accepted, the run starts from the thread's latest checkpoint
\* with the new message as one more write: the messages the first
\* superstep reads are the stored messages followed by the new message,
\* and every other channel has exactly the value of that latest
\* checkpoint; the run begins at the entry node.
C16_Accepted(c) ==
    /\ sRun[c].pc = "checked"
    /\ sRun[c].seen
    /\ sRun'[c].pc = "streaming"

C16_RunAppliesInputAsWrites ==
    [][ \A c \in SCallers :
          C16_Accepted(c) =>
             LET t == sRun[c].thread
                 old == Latest(sStore, t).values
                 new == sRun'[c].values
             IN  /\ new.messages = old.messages \o <<sRun[c].message>>
                 /\ \A ch \in DOMAIN old \ {"messages"} : new[ch] = old[ch]
                 /\ DOMAIN new = DOMAIN old
                 /\ sRun'[c].next = {"qualifier"}
                 /\ Latest(sStore', t).values = new
                 /\ Latest(sStore', t).parent = Latest(sStore, t).id ]_vars

C16_Witness ==
    \E c \in SCallers :
        /\ sRun[c].pc = "streaming"
        /\ sRun[c].seen
        /\ Latest(sStore, sRun[c].thread).source = "input"
        /\ sRun[c].base = Latest(sStore, sRun[c].thread).id
        /\ Len(sRun[c].values.messages) >= 3
        /\ sRun[c].values.last_updated > sRun[c].values.started_at
        /\ sRun[c].values.messages[Len(sRun[c].values.messages)] = sRun[c].message

\* C17: for each node with a conditional edge in the graphs of the
\* repository and each state, the value the node's router returns is a key
\* of the mapping given for that node, and the destination it is mapped to
\* is a node the graph declares or the terminal marker; every destination
\* of every mapping is one.
C17_MappingsAreClosed ==
    \A node \in RouterNodes :
        \A key \in DOMAIN ConditionalEdges(node) :
            ConditionalEdges(node)[key] \in RGraphNodes(RGraphOf(node)) \cup {END}

C17_RoutesAreMapped ==
    /\ C17_MappingsAreClosed
    /\ rPc = "routed" =>
          /\ rOut.mapped
          /\ rOut.route \in DOMAIN ConditionalEdges(rNode)
          /\ rOut.dest \in RGraphNodes(RGraphOf(rNode)) \cup {END}

C17_Witness ==
    /\ rPc = "routed"
    /\ rNode = "sales.closer"
    /\ rState.current_stage = "paused"
    /\ rOut.route = "qualifier"
    /\ rOut.dest = "qualifier"

(***************************************************************************)
(* Claims about the sales conversations of several users.                  *)
(***************************************************************************)
\* C13, first part: the history and the get_state result of a user's thread
\* are those of the execution in which the other users do nothing.
C13_SameAsAlone ==
    \A u \in UUsers :
        /\ GetStateHistory(uStore, SConfig(u)) = GetStateHistory(uAlone, u)
        /\ GetState(uStore, SConfig(u)) = GetState(uAlone, u)
        /\ uRun[u] = uAloneRun[u]

\* C13, second part: the state a node of a user's run reads is the one of
\* the run's latest checkpoint on the user's own thread, and every
\* checkpoint of that thread holds this user's id.
C13_ReadsOwnThread ==
    \A u \in UUsers :
        /\ uRun[u].pc = "streaming" =>
             /\ uRun[u].base \in 1..Len(uStore[SConfig(u)])
             /\ uRun[u].values = uStore[SConfig(u)][uRun[u].base].values
             /\ uRun[u].values.user_id = u
        /\ \A i \in 1..Len(uStore[SConfig(u)]) :
             uStore[SConfig(u)][i].values.user_id = u

\* C13, frame: a step in which a user does nothing leaves the user's thread
\* as it was.
C13_Frame ==
    \A u \in UUsers :
        uRun'[u] = uRun[u] => uStore'[SConfig(u)] = uStore[SConfig(u)]

\* C13: threads are isolated: for two users on distinct threads and any
\* interleaving of their calls and supersteps, each thread's history and
\* state are what they are without the other user, no step of one user
\* changes the other's thread, and a node reads its own thread's values.
C13_ThreadsIsolated ==
    /\ [](C13_SameAsAlone /\ C13_ReadsOwnThread)
    /\ [][C13_Frame]_vars

\* Both users have a running conversation of at least two checkpoints each,
\* begun with different messages.
C13_Witness ==
    \E u \in UUsers, v \in UUsers :
        /\ u /= v
        /\ SConfig(u) /= SConfig(v)
        /\ uRun[u].pc = "streaming" /\ uRun[v].pc = "streaming"
        /\ Len(uStore[SConfig(u)]) >= 2 /\ Len(uStore[SConfig(v)]) >= 2
        /\ uStore[SConfig(u)][1].values.messages
             /= uStore[SConfig(v)][1].values.messages
        /\ uStore[SConfig(u)][1].values.user_id = u
        /\ uStore[SConfig(v)][1].values.user_id = v

(***************************************************************************)
(* Claims about the order of the project workflow's stages.                *)
(***************************************************************************)
\* The thread's current run was started by start_new_project.
C21_StartRun(t) == pStarts > 0 /\ pResumedAt[t] = Null

\* C21, order: the nodes a run started by start_new_project has executed
\* are planning first and only first, then executions, and review only as
\* the last one, after an execution; a run that halted executed planning
\* once and review once and returned current_stage = "complete".
C21_Order ==
    \A t \in PThreads :
        C21_StartRun(t) =>
            LET tr == pTrace[t]
            IN  /\ \A i \in 1..Len(tr) :
                     /\ tr[i] = "planning" <=> i = 1
                     /\ tr[i] = "review" =>
                            /\ i = Len(tr)
                            /\ i > 1 /\ tr[i - 1] = "execution"
                            /\ pStatus[t] = "halted"
                /\ pStatus[t] = "halted" =>
                     /\ Len(tr) >= 3
                     /\ tr[Len(tr)] = "review"
                     /\ pResult[t].tag = "Completed"
                     /\ pResult[t].values.current_stage = "complete"

\* C21, pre-states: execution runs on a state with planning_complete,
\* review on a state with execution_complete, and the run halts with the
\* review's checkpoint.
C21_PreStates ==
    \A t \in PThreads :
        (C21_StartRun(t) /\ Len(pTrace'[t]) = Len(pTrace[t]) + 1) =>
            LET node == pTrace'[t][Len(pTrace'[t])]
                state == Latest(pStore, t).values
            IN  /\ node = "planning" => ~state.planning_complete
                /\ node = "execution" =>
                       state.planning_complete /\ ~state.execution_complete
                /\ node = "review" =>
                       /\ state.planning_complete /\ state.execution_complete
                       /\ pStatus'[t] = "halted"
                       /\ Latest(pStore', t).values.current_stage = "complete"
                /\ node # "review" => pStatus'[t] = "running"

\* C21: in every run started by start_new_project the stages execute in
\* the order planning, execution, review: planning once, execution only
\* with planning_complete, review once and only with execution_complete,
\* and the run halts right after review with current_stage = "complete".
C21_StagesInOrder == []C21_Order /\ [][C21_PreStates]_vars

\* A run started by start_new_project went through planning, two
\* executions and review, and halted.
C21_Witness ==
    \E t \in PThreads :
        /\ C21_StartRun(t)
        /\ pStatus[t] = "halted"
        /\ pTrace[t] = <<"planning", "execution", "execution", "review">>

(***************************************************************************)
(* Claims about the runs of the sales workflow.                            *)
(***************************************************************************)
\* C27: the first run of a new conversation (the whole initial state is
\* streamed, can_afford is not set) executes qualifier_agent once and then
\* halts to wait for the user's reply: no such run that is still going on
\* has executed the qualifier, and none executes it a second time.
C27_FirstRunAsksOnce ==
    \A c \in SCallers :
        (sRun[c].pc = "streaming" /\ ~sRun[c].seen) =>
            /\ Len(sRun[c].trace) <= 1
            /\ Len(sRun[c].trace) = 1 => sRun[c].next = {}

\* What the nodes and the router decide from: can_afford, current_stage,
\* stripe_link_sent and, once can_afford is set, the last message.
C28_Control(values) ==
    [can_afford |-> values.can_afford,
     current_stage |-> values.current_stage,
     stripe_link_sent |-> values.stripe_link_sent,
     last |-> IF values.can_afford = None \/ Len(values.messages) = 0 THEN None
              ELSE values.messages[Len(values.messages)]]

\* C28: every continue_conversation run halts, for every thread state and
\* every user message.  A run that reaches END after finitely many
\* supersteps whatever the model replies never comes back to a
\* configuration (frontier and the values the nodes decide from) that it
\* has already executed: from there it would repeat for ever.
C28_ContinueRunsHalt ==
    \A c \in SCallers :
        (sRun[c].pc = "streaming" /\ sRun[c].seen) =>
            LET log == sStore[sRun[c].thread]
                first == sRun[c].base - Len(sRun[c].trace)
            IN  \A i \in first..(sRun[c].base - 1) :
                    ~ /\ log[i].next = sRun[c].next
                      /\ C28_Control(log[i].values) = C28_Control(sRun[c].values)

(***************************************************************************)
(* Claims about the shared-state research graph.                           *)
(***************************************************************************)
C24_Count(seq, x) == Cardinality({i \in 1..Len(seq) : seq[i] = x})

C24_Rank(node) ==
    CASE node = "research" -> 1 [] node = "analysis" -> 2 [] node = "report" -> 3

\* C24, order: supervisor and workers alternate, starting with the
\* supervisor; the workers come in the order research, analysis, report,
\* research once; a worker executes more than once only after an empty
\* model reply; a run that halted executed every worker, ended with a
\* supervisor step and holds a final_report.
C24_Order ==
    /\ \A i \in 1..Len(gTrace) : (gTrace[i] = "supervisor") <=> (i % 2 = 1)
    /\ \A i \in 1..Len(gTrace), j \in 1..Len(gTrace) :
         (i < j /\ gTrace[i] \in GWorkers /\ gTrace[j] \in GWorkers) =>
             C24_Rank(gTrace[i]) <= C24_Rank(gTrace[j])
    /\ C24_Count(gTrace, "research") <= 1
    /\ C24_Count(gTrace, "analysis") + C24_Count(gTrace, "report") <= 2 + gEmpty
    /\ gStatus = "halted" =>
         /\ \A w \in GWorkers : C24_Count(gTrace, w) >= 1
         /\ gTrace[Len(gTrace)] = "supervisor"
         /\ gValues.final_report # ""
         /\ gValues.next_agent = "FINISH"

\* C24, pre-states: a worker executes only after the field it reads has
\* been populated and while its own field is empty; the supervisor step
\* that sees final_report halts the run.
C24_PreStates ==
    Len(gTrace') = Len(gTrace) + 1 =>
        LET node == gTrace'[Len(gTrace')]
        IN  /\ node = "research" => gValues.web_results = <<>>
            /\ node = "analysis" =>
                   gValues.web_results # <<>> /\ gValues.analysis = ""
            /\ node = "report" =>
                   gValues.analysis # "" /\ gValues.final_report = ""
            /\ (node = "supervisor" /\ gValues.final_report # "") =>
                   gStatus' = "halted"
            /\ gStatus' = "halted" =>
                   node = "supervisor" /\ gValues.final_report # ""

\* C24 (amended): the supervisor routes to research, then analysis, then
\* report, then FINISH, each worker only after the field it reads is
\* populated; a worker whose model reply is empty is executed again, and
\* without empty replies each worker executes exactly once.
C24_WorkersInOrder == []C24_Order /\ [][C24_PreStates]_vars

\* A run halted after the seven steps of the documented flow.
C24_Witness ==
    /\ gStatus = "halted"
    /\ gEmpty = 0
    /\ gTrace = <<"supervisor", "research", "supervisor", "analysis",
                  "supervisor", "report", "supervisor">>

\* C24: started from the standard initial state, each worker executes
\* exactly once, in the order research, analysis, report.
C24_EachWorkerOnce ==
    /\ \A w \in GWorkers : C24_Count(gTrace, w) <= 1
    /\ gStatus = "halted" => \A w \in GWorkers : C24_Count(gTrace, w) = 1

(***************************************************************************)
(* Claims about the customer-support coordinator graph.                    *)
(***************************************************************************)
C25_Team(assigned) ==
    CASE assigned = "tech" -> "tech_team"
      [] assigned = "billing" -> "billing_team"
      [] assigned = "none" -> "clarification"
      [] OTHER -> "__end__"

\* C25: every run of the coordinator graph executes coordinator first and
\* once, then exactly the one team node that matches the assigned_team the
\* coordinator wrote in that same run, and then halts; a run never halts
\* right after coordinator, i.e. the "__end__" branch of route_to_team is
\* never taken.
C25_CoordinatorThenOneTeam ==
    /\ Len(kTrace) <= 2
    /\ (Len(kTrace) >= 1 =>
          /\ kTrace[1] = "coordinator"
          /\ C25_Team(kAssigned) \in KTeamNodes)
    /\ (Len(kTrace) = 1 /\ kStatus # "failed" =>
          /\ kStatus = "running"
          /\ kStore[Len(kStore)].next = {C25_Team(kAssigned)})
    /\ (Len(kTrace) = 2 =>
          /\ kTrace[2] = C25_Team(kAssigned)
          /\ kStatus = "halted"
          /\ kStore[Len(kStore)].next = {})
    /\ (kStatus = "halted" => Len(kTrace) = 2)

\* A second run on the thread asks for clarification although the first run
\* left assigned_team = "tech" in the thread's state.
C25_Witness ==
    /\ kRuns = 2
    /\ kStatus = "halted"
    /\ kTrace = <<"coordinator", "clarification">>
    /\ \E i \in 1..Len(kStore) : kStore[i].values.assigned_team = "tech"

C26_PrivateChannels ==
    {"ticket_created", "issue_resolved", "refund_processed",
     "subscription_updated"}

C26_Boundary ==
    /\ \A i \in 1..Len(kStore) :
         DOMAIN kStore[i].values \cap C26_PrivateChannels = {}
    /\ (kCall.team # "none" =>
          /\ DOMAIN kCall.input = {"messages"}
          /\ DOMAIN kCall.write = {"messages"}
          /\ "assigned_team" \notin DOMAIN kCall.result
          /\ kCall.write.messages = kCall.result.messages
          /\ kCall.input.messages = kStore[Len(kStore) - 1].values.messages)
    /\ (kCall.team = "tech_team" =>
          DOMAIN kCall.result = DOMAIN TechSupportEmpty)
    /\ (kCall.team = "billing_team" =>
          DOMAIN kCall.result = DOMAIN BillingEmpty)
    /\ DOMAIN kSub.tech = DOMAIN TechSupportEmpty
    /\ DOMAIN kSub.billing = DOMAIN BillingEmpty

C26_Frame ==
    /\ (kCall'.team = "tech_team" /\ kStore' # kStore =>
          kSub'.billing = kSub.billing)
    /\ (kCall'.team = "billing_team" /\ kStore' # kStore =>
          kSub'.tech = kSub.tech)
    /\ (kSub' # kSub => kCall'.team \in {"tech_team", "billing_team"})

\* C26: only the messages channel crosses the subgraph boundary, in either
\* direction: a team node invokes its subgraph with the parent's messages
\* alone and returns the subgraph's messages alone, no checkpoint of the
\* parent holds a subgraph's private channel, no subgraph state holds
\* assigned_team, and a run of one team's subgraph leaves the other team's
\* private state as it was.
C26_SubgraphIsolated == []C26_Boundary /\ [][C26_Frame]_vars

\* The tech subgraph has created a ticket on a thread whose billing subgraph
\* processed a refund in the earlier run.
C26_Witness ==
    /\ kCall.team = "tech_team"
    /\ kCall.result.ticket_created = TRUE
    /\ kSub.billing.messages # <<>>
    /\ kSub.billing.refund_processed = TRUE
    /\ kStatus = "halted"

(***************************************************************************)
(* Claims about the frontiers of the hierarchical teams graph.             *)
(***************************************************************************)
C29_Writers(ch) ==
    {node \in hFrontier :
        \A content \in SUBSET HKeywords(node) :
            ch \in DOMAIN HNodeWrite(node, hValues, content)}

\* C29: every superstep of the hierarchical graph has at most one node that
\* writes next_agent and at most one that writes next_team, the two team
\* supervisors are never in the same frontier, and no run fails with an
\* overwrite conflict.
C29_OneWriterPerStep ==
    /\ Cardinality(C29_Writers("next_agent")) <= 1
    /\ Cardinality(C29_Writers("next_team")) <= 1
    /\ ~({"communication_team", "scheduling_team"} \subseteq hFrontier)
    /\ hResult # Failed("ConcurrentOverwriteConflict")

\* C30: once top_supervisor has written next_team = "FINISH" the run has
\* halted: no node is left to execute in a later superstep.
C30_FinishHalts ==
    hValues.next_team = "FINISH" => hFrontier = {} /\ hStatus = "halted"

(***************************************************************************)
(* Claims about the length of a project run.                               *)
(***************************************************************************)
C31_Count(node) ==
    Cardinality({i \in 1..Len(tTrace) : tTrace[i] = node})

\* C31: a run of the project workflow from a fresh initial state executes
\* at most 6 nodes and has halted by then: planning leaves between 1 and 10
\* pending tasks, execution runs at most 4 times, review at most once, and
\* the loop of simple_test never reaches its safety limit.
C31_HaltsWithinSixSteps ==
    /\ Len(tTrace) <= 6
    /\ (Len(tTrace) = 6 => tStatus = "halted")
    /\ (tTrace # <<>> /\ tTrace[Len(tTrace)] = "planning" =>
          Len(tValues.pending_tasks) \in 1..10)
    /\ C31_Count("planning") <= 1
    /\ C31_Count("execution") <= 4
    /\ C31_Count("review") <= 1
    /\ ~tBroke
    /\ tStatus # "cancelled"

\* A plan of ten tasks: the run halts at its sixth node.
C31_Witness ==
    /\ tStatus = "halted"
    /\ tTrace = <<"planning", "execution", "execution", "execution",
                  "execution", "review">>
    /\ Len(tValues.completed_tasks) = 10

\* C32: right after the time-travel operation the thread's state is the
\* state of a historical checkpoint: get_state returns values equal, on
\* every channel and the messages list included, to the values of a
\* checkpoint that was in the thread's history.
C32_TimeTravelRestoresState ==
    \A t \in PThreads :
        HasState(pStore, t) /\ Latest(pStore, t).source = "update" =>
            \E i \in 1..(Len(pStore[t]) - 1) :
                GetState(pStore, t).values = pStore[t][i].values

\* C33: when run_with_hitl returns after its resume call, the supervisor's
\* run is complete: the thread is halted and no interrupt is pending.
C33_ResumeCompletesRun ==
    (iPc = "done" /\ iCollected # {} /\ iStatus # "failed") =>
        /\ iStatus = "halted"
        /\ IPending = {}

(***************************************************************************)
(* Claims about the routing decision of the research supervisor.           *)
(***************************************************************************)
C34_FirstEmpty(state) ==
    IF Len(state.web_results) = 0 THEN "research"
    ELSE IF state.analysis = "" THEN "analysis"
    ELSE IF state.final_report = "" THEN "report"
    ELSE "FINISH"

\* C34: the next_agent the research supervisor writes is a function of the
\* emptiness of web_results, analysis and final_report alone: research,
\* analysis, report or FINISH for the first empty field in that order,
\* whatever the model's reply says.
C34_RoutingByStatePresence ==
    (gTrace # <<>> /\ gTrace[Len(gTrace)] = "supervisor") =>
        gValues.next_agent = C34_FirstEmpty(gValues)

\* The model answers FINISH while web_results is empty: the supervisor
\* routes to research.
C34_Witness ==
    /\ gTrace # <<>>
    /\ gTrace[Len(gTrace)] = "supervisor"
    /\ gValues.messages[Len(gValues.messages)] = "FINISH"
    /\ gValues.web_results = <<>>
    /\ gValues.next_agent = "research"

(***************************************************************************)
(* Claims about the agentic RAG graph.                                     *)
(***************************************************************************)
\* C36: the retrieval_used value a run writes is true exactly when the
\* agent called the retrieval tool while answering that run's query,
\* whatever earlier queries on the thread did.
C36_RetrievalUsedIsPerRun ==
    \A t \in AThreads :
        aStatus[t] = "halted" => (aValues[t].retrieval_used = aCalled[t])

(***************************************************************************)
(* Claims about the task lists of the project workflow.                    *)
(***************************************************************************)
C37_ExecutionStep(t) ==
    /\ pTrace'[t] = Append(pTrace[t], "execution")
    /\ Len(pStore'[t]) = Len(pStore[t]) + 1

C37_Conserved(pre, post) ==
    LET moved == IF Len(pre.pending_tasks) < 3 THEN Len(pre.pending_tasks) ELSE 3
    IN  /\ post.completed_tasks \o post.pending_tasks =
              pre.completed_tasks \o pre.pending_tasks
        /\ Len(post.completed_tasks) = Len(pre.completed_tasks) + moved
        /\ post.execution_complete = (post.pending_tasks = <<>>)
        /\ (post.current_stage = "review") = (post.pending_tasks = <<>>)
        /\ post.current_stage \in {"review", "execution"}

\* C37: every execution_stage step conserves the tasks: completed_tasks
\* followed by pending_tasks is the same sequence before and after,
\* min(3, number pending) tasks move from the head of pending_tasks to the
\* tail of completed_tasks, and execution_complete = true and
\* current_stage = "review" are set exactly when no task is pending
\* afterwards.
C37_ExecutionConservesTasks ==
    [][\A t \in PThreads :
          C37_ExecutionStep(t) =>
              C37_Conserved(Latest(pStore, t).values, Latest(pStore', t).values)]_vars

\* The second execution step of a plan of seven tasks: six are completed,
\* one is pending.
C37_Witness ==
    \E t \in PThreads :
        /\ pTrace[t] = <<"planning", "execution", "execution">>
        /\ Latest(pStore, t).values.completed_tasks = <<1, 2, 3, 4, 5, 6>>
        /\ Latest(pStore, t).values.pending_tasks = <<7>>
        /\ ~Latest(pStore, t).values.execution_complete
(***************************************************************************)
(* C38: in an interactive_sales session the conversation of a thread is    *)
(* started at most once: every checkpoint of the thread carries the        *)
(* started_at of its first checkpoint, so the stored qualification state   *)
(* is never reset by a later message.                                      *)
(***************************************************************************)
C38_StartedOnce ==
    \A i \in 1..Len(xStore) :
        xStore[i].values.started_at = xStore[1].values.started_at

=============================================================================
